---- MODULE Spec2Model ----
(***************************************************************************)
(* Dink edge bridge of ZeroClaw: ZeroClawEdgeService (edge_service.rs)     *)
(* forwards RPC calls over a bounded mpsc queue to DinkChannel::listen     *)
(* (channel.rs), which registers a oneshot sender per request in the       *)
(* pending map and forwards a ChannelMessage to the message bus; the       *)
(* dispatch loop answers through DinkChannel::send.                        *)
(***************************************************************************)
EXTENDS Integers, Sequences, FiniteSets, TLC

VARIABLES
    agent_sender,      \* edge_service.rs:106  TRUE = Some(tx), FALSE = None
    status,            \* edge_service.rs:107  InstanceStatus.status
    messages_handled,  \* edge_service.rs:111
    tool_calls_total,  \* edge_service.rs:112
    shutPc,            \* position of the Shutdown RPC handler
    queue,             \* the mpsc channel of AgentRequests (edge_service.rs:125)
    rxDropped,         \* the Receiver<AgentRequest> has been dropped
    pc,                \* per call: position of send_message / stream_message
    kind,              \* per call: "unary" | "stream"
    reply_to,          \* per call: metadata["reply_to"] of the request
    slot,              \* per call: state of its oneshot channel
    relay,             \* per call: state of the stream_delta channel
    result,            \* per call: what the RPC returned
    lpc,               \* position of DinkChannel::listen
    msg_counter,       \* channel.rs:64
    cur,               \* the agent_req listen is handling
    pending,           \* channel.rs:37  id -> call owning the oneshot sender
    bus,               \* the message bus listen sends ChannelMessages to
    busOpen,           \* the bus receiver is alive
    nSends,            \* number of DinkChannel::send calls so far
    lastSend,          \* the recipient of the last DinkChannel::send call, and what it returned
    regId,             \* per call: the id listen generated for its request
    inserted,          \* ids listen has inserted into the pending map so far
    fulfilled,         \* per call: number of tx.send calls on its oneshot sender
    overwrites,        \* number of inserts that replaced a live entry
    addressed,         \* per call: sends addressed to its id since registration
    firstAddressed,    \* per call: the first such send
    session,           \* per call: SendMessageRequest.session_id
    waited,            \* per call: time spent so far in its timeout(.., response_rx)
    relayQ,            \* per call: the chunks in its stream_delta channel
    produced,          \* per call: the chunks put on its stream_delta channel so far
    emitted,           \* per call: the chunks passed to its emit sink so far
    preq,              \* the AgentRequest the agent loop of mod.rs is processing
    supplied,          \* per call: what the agent loop passed to response_tx.send
    startPc,           \* position of start_dink_listener after expose_service
    gsLast,            \* what the last get_status call returned, and when it started
    alive,             \* watchdog.rs:19  the AtomicBool cells allocated so far
    clones,            \* per DinkLiveness value: the cell its Arc points to
    lastMark,          \* the last of mark_dead / mark_alive called on any clone
    nMarks,            \* number of mark_dead / mark_alive calls so far
    seen,              \* per DinkLiveness value: what its last is_alive() returned, and when
    wpc,               \* position of the task spawn_watchdog spawns (watchdog.rs:90)
    wdExit,            \* WatchdogConfig.exit_on_timeout of that task
    woken,             \* the Notified future of the task on notify_dead
    slept,             \* time spent so far in sleep(config.grace_period)
    elapsed,           \* time since spawn_watchdog was called
    recovered,         \* the task has passed "recovered during grace" (watchdog.rs:114)
    notifyDue,         \* mark_dead calls between their store and their notify_waiters
    deadFor,           \* time for which the flag has been false without interruption
    everAlive,         \* the flag has been true at some time since spawn_watchdog
    everDead,          \* mark_dead has been called
    hsLiveness,        \* the Option<DinkLiveness> start_health_server was given
    health,            \* the last answer of GET /v1/health, and the flag at the request
    discovered,        \* the last DinkToolProvider::discover call: its inputs and its result
    made,              \* the last DinkServiceTool::new call: its arguments and its name
    executed,          \* the last DinkServiceTool::execute call: its inputs and what it returned
    table,             \* the tools built for (service, method) pairs of the known-methods table
    loopPc,            \* the agent loop's select: polling both receivers, the config receiver only, or left
    configQ,           \* the RuntimeConfigUpdate channel from update_config to the agent loop
    config_tx,         \* the edge service holds its config_tx sender
    nUpdates,          \* UpdateConfig RPCs so far
    capacity,          \* the capacity of the agent request queue
    applied,           \* the config update the agent applied last
    refused,           \* per call, the chunks the relay refused because its receiver was gone
    statusGuard,       \* the guard on the status lock: who holds it, and the counter when it was taken
    snapshot,          \* the count fields of the InstanceStatus stored under the status lock
    gsResp             \* the last GetStatusResponse of a get_status call that ran with others

vars == <<agent_sender, status, messages_handled, tool_calls_total, shutPc,
          queue, rxDropped, pc, kind, reply_to, slot, relay, result,
          lpc, msg_counter, cur, pending, bus, busOpen,
          nSends, lastSend, regId, inserted, fulfilled, overwrites,
          addressed, firstAddressed,
          session, waited, relayQ, produced, emitted, preq, supplied, startPc,
          gsLast, alive, clones, lastMark, nMarks, seen,
          wpc, wdExit, woken, slept, elapsed, recovered,
          notifyDue, deadFor, everAlive, everDead,
          hsLiveness, health, discovered, made,
          executed, table, loopPc, configQ, config_tx, nUpdates, capacity, applied, refused, statusGuard, snapshot, gsResp>>

edgeVars == <<agent_sender, status, messages_handled, tool_calls_total, shutPc>>
callVars == <<pc, kind, reply_to, result>>
histVars == <<nSends, lastSend, regId, inserted, fulfilled, overwrites,
              addressed, firstAddressed>>
liveVars == <<alive, clones, lastMark, nMarks, seen>>
wdVars   == <<wpc, wdExit, woken, slept, elapsed, recovered>>
markVars == <<notifyDue, deadFor, everAlive, everDead>>
probeVars == <<hsLiveness, health>>
toolVars == <<discovered, made>>
loopVars == <<loopPc, configQ, config_tx, nUpdates, capacity, applied>>
lateVars == <<executed, table, loopPc, configQ, config_tx, nUpdates, capacity, applied, refused, statusGuard, snapshot, gsResp>>
statusVars == <<statusGuard, snapshot, gsResp>>
toolRunVars == <<executed, table, loopVars, refused>>
sideVars == <<wdVars, markVars, probeVars, toolVars, lateVars>>
settledVars == <<edgeVars, queue, rxDropped, callVars, slot, relay, lpc, msg_counter, cur,
                 pending, bus, busOpen, histVars, session, waited, relayQ, produced,
                 emitted, preq, supplied, startPc, gsLast, liveVars, wdVars, markVars,
                 probeVars, toolVars>>
auxVars  == <<waited, relayQ, produced, emitted, preq, supplied, startPc, gsLast,
              liveVars, sideVars>>

----------------------------------------------------------------------------
(* Bounds of the model *)

LoopQueueCap == 2  \* capacity of the agent request queue where the order of requests matters
ConfigCap == 1     \* capacity of the config update channel, scaled down
MaxUpdates == 1    \* UpdateConfig RPCs in one run
MaxStatusOps == 2  \* get_status and update_status calls that hold the status lock in one run
MaxTools == 2      \* tools built for pairs of the known-methods table in one run
MaxCalls == 2      \* RPC calls issued in one run
QueueCap == 1      \* capacity of the agent request queue, scaled down
BusCap   == 1      \* capacity of the message bus, chosen by the caller of listen
MaxSends == 2      \* DinkChannel::send calls by other callers than the dispatch loop
MaxToolCalls == 1  \* tool-call records in one AgentResponse
MaxChunks == 2     \* chunks the agent produces for one stream_message call
RelayCap == 2      \* capacity of the stream_delta channel, scaled down
MaxClones == 3     \* DinkLiveness values alive in one run, the original included
MaxMarks == 3      \* mark_dead / mark_alive calls in one run
MaxStreams == 1    \* stream_message calls issued in one run of the streaming system
Quantum  == 60     \* time units that pass in one step of the clock
Horizon  == 300    \* the clock of the watchdog is followed up to this time
MaxNameLen == 3    \* length of the generated service and method names
MaxEdges == 2      \* online edges returned by one discover_edges call

\* Duration::from_secs(30) of send_to_agent, Duration::from_secs(120) of stream_message
UnaryCeiling  == 30
StreamCeiling == 120

\* Duration::from_secs(120) of WatchdogConfig::default()
Grace == 120

Min(a, b) == IF a < b THEN a ELSE b

Calls    == 1 .. MaxCalls

\* the calls of a run that has stream_message calls only
StreamCalls == 1 .. Min(MaxStreams, MaxCalls)

\* execute: how far below the limit the one-byte run of a reply may end
LeadSlack == 3

\* execute: the characters of a reply after its one-byte run
MaxTail == 2

\* MAX_OUTPUT_BYTES = 50 * 1024
MAX_OUTPUT_BYTES == 51200

----------------------------------------------------------------------------
(* Values *)

NoId     == "none"
NoReplyTo == "absent"

\* format!("dink-{msg_counter}")
DinkId(n) == "dink-" \o ToString(n)

\* metadata.get("reply_to").unwrap_or("dink-rpc")
DefaultReplyTarget == "dink-rpc"

\* the reply_to values a caller puts in the request context
ReplyTos == {NoReplyTo, DinkId(1)}

\* recipients a DinkChannel::send call may name
Recipients == {DefaultReplyTarget} \cup {DinkId(n) : n \in 1 .. MaxCalls}

\* (the source spells the dash of the first message as U+2014)
ErrNotStartedUnary  == "agent not started - no sender channel available"
ErrNotStartedStream == "agent not started"
ErrChannelClosed    == "agent channel closed"
ErrUnaryTimeout     == "agent response timed out after 30s"
ErrStreamTimeout    == "stream response timed out"
ErrSlotDropped      == "agent response channel dropped"
ErrAgent(e)         == "agent error: " \o e

ErrEmit             == "emit failed"

\* the session_id of a request that names none
NoSession == ""

\* the session ids callers put in their requests
Sessions == {"s1", "s2"}

NoResult     == [tag |-> "none", text |-> "", tool_calls |-> 0]
Err(msg)     == [tag |-> "Err", text |-> msg, tool_calls |-> 0]
OkResult(r)  == [tag |-> "Ok", text |-> r.response, tool_calls |-> r.tool_calls]
\* stream_message returns Ok(()): the terminal response is not passed on
OkUnit       == [tag |-> "Ok", text |-> "", tool_calls |-> 0]

\* the oneshot channel of a call: not created, waiting, holding a value, or
\* closed by the drop of its sender; rx tells whether the receiver is alive
NoSlot      == [st |-> "none", val |-> "", tool_calls |-> 0, rx |-> FALSE]
EmptySlot   == [st |-> "empty", val |-> "", tool_calls |-> 0, rx |-> TRUE]

NoSend == [recipient |-> NoId, ret |-> "none"]

NoRequest == [call |-> 0, reply_to |-> NoReplyTo, streaming |-> FALSE]

\* the agent loop has not resolved the request
NoReply == [tag |-> "none", response |-> "", tool_calls |-> 0]

\* the agent loop holds no request
NoWork == [call |-> 0, tx |-> FALSE, delta |-> FALSE]

\* no get_status call has returned yet
NoStatusRead == [status |-> "", after_shutdown |-> FALSE]

----------------------------------------------------------------------------
(* tokio::sync::oneshot, as the code uses it *)

\* faulty variant: a value reaches a receiver that was dropped
SlotSendToDropped(s, resp) ==
    IF s.st = "empty"
    THEN [s EXCEPT !.st = "full", !.val = resp.response, !.tool_calls = resp.tool_calls,
                   !.rx = TRUE]
    ELSE s

\* tx.send(value): the value is stored unless the receiver is gone
SlotSend(s, resp) ==
    IF s.rx /\ s.st = "empty"
    THEN [s EXCEPT !.st = "full", !.val = resp.response, !.tool_calls = resp.tool_calls]
    ELSE s

\* tx.send(Err(e)): the agent's error is stored unless the receiver is gone
SlotFail(s, e) ==
    IF s.rx /\ s.st = "empty"
    THEN [s EXCEPT !.st = "failed", !.val = e]
    ELSE s

\* the sender is dropped without a send: the receiver sees a closed channel
SlotDropSender(s) == IF s.st = "empty" THEN [s EXCEPT !.st = "closed"] ELSE s

\* the receiver is dropped or consumed
SlotDropReceiver(s) == [s EXCEPT !.rx = FALSE]

\* the slots after the oneshot senders of the calls in S are dropped
DropSenders(sl, S) == [c \in Calls |-> IF c \in S THEN SlotDropSender(sl[c]) ELSE sl[c]]

\* the relays after the stream_delta senders of the calls in S are dropped
DropRelays(rl, S) == [c \in Calls |-> IF c \in S /\ rl[c] = "open" THEN "closed" ELSE rl[c]]

\* the calls whose requests are in a sequence of AgentRequests
CallsOf(q) == {q[i].call : i \in 1 .. Len(q)}

----------------------------------------------------------------------------
(* The pending map: HashMap<String, oneshot::Sender>; 0 = no entry *)

EmptyMap == [id \in Recipients |-> 0]
MapInsert(map, k, v) == [map EXCEPT ![k] = v]
MapRemove(map, k) == [map EXCEPT ![k] = 0]

----------------------------------------------------------------------------
(* ZeroClawEdgeService: send_message, stream_message, shutdown *)

\* faulty variant: the read guard is dropped once the request is enqueued
HoldsGuardToEnqueue(p) == p = "enqueue"

\* the positions at which a call holds the read guard on agent_sender
HoldsGuard(p) == p \in {"enqueue", "relay", "await", "settle"}
Readers == {c \in Calls : HoldsGuard(pc[c])}

\* tokio's RwLock is fair: no read guard is given out while a writer queues
WriterQueued == shutPc = "sever"

\* sender_guard.as_ref().ok_or_else(..): the failure of a call that finds None
NotStarted(k) == IF k = "unary" THEN Err(ErrNotStartedUnary) ELSE Err(ErrNotStartedStream)

\* faulty variant: the check for None is missing
SenderAvailableUnchecked(sender) == TRUE

\* the link check of send_to_agent / stream_message: TRUE = go on to enqueue
SenderAvailable(sender) == sender

\* the AgentRequest a call enqueues
MakeRequest(c) ==
    [call |-> c, reply_to |-> reply_to[c], streaming |-> kind[c] = "stream"]

\* the timeout failure of a call
TimeoutErr(k) == IF k = "unary" THEN Err(ErrUnaryTimeout) ELSE Err(ErrStreamTimeout)

\* faulty variant: the counters are kept under the status lock
CounterBlockedByStatus(held) == held # "none"

\* fetch_add on the AtomicI32 counters takes no lock: the increment never waits
CounterBlocked(held) == FALSE

\* fetch_add on the counters after a successful reply
HandledAfter(n, k) == n + 1

\* faulty variant: one is added per reply, not per tool-call record
ToolCallsAfterPerReply(n, k, calls) == IF k = "unary" THEN n + 1 ELSE n

\* faulty variant: stream_message adds the tool calls of its terminal reply too
ToolCallsAfterAnyKind(n, k, calls) == n + calls

ToolCallsAfter(n, k, calls) == IF k = "unary" THEN n + calls ELSE n

\* faulty variant: the response does not carry the session id of the request
SendMessageResponseNoSession(sid, agent_resp) ==
    [response |-> agent_resp.text, session_id |-> NoSession,
     tool_calls |-> agent_resp.tool_calls, duration_ms |-> 0]

\* send_message: the SendMessageResponse built from the request's session id
\* and the AgentResponse of send_to_agent
SendMessageResponse(sid, agent_resp) ==
    [response |-> agent_resp.text, session_id |-> sid,
     tool_calls |-> agent_resp.tool_calls, duration_ms |-> 0]

\* what a send_message call that succeeded returned to its caller
Returned(c) == SendMessageResponse(session[c], result[c])

\* an RPC with a SendMessageRequest arrives; stream_message creates its delta
\* channel first
CallBegin(c, k, rt, s) ==
    /\ pc[c] = "idle"
    /\ \A d \in Calls : d < c => pc[d] # "idle"
    /\ pc' = [pc EXCEPT ![c] = "read"]
    /\ kind' = [kind EXCEPT ![c] = k]
    /\ reply_to' = [reply_to EXCEPT ![c] = rt]
    /\ session' = [session EXCEPT ![c] = s]
    /\ relay' = [relay EXCEPT ![c] = IF k = "stream" THEN "open" ELSE "none"]
    /\ UNCHANGED <<auxVars, edgeVars, queue, rxDropped, slot, result, lpc, msg_counter, cur,
                   pending, bus, busOpen, histVars>>

\* an RPC whose request has an empty session_id
CallStart(c, k, rt) == CallBegin(c, k, rt, NoSession)

\* agent_sender.read().await and the check for None
CallAcquire(c) ==
    /\ pc[c] = "read"
    /\ ~WriterQueued
    /\ IF SenderAvailable(agent_sender)
       THEN /\ pc' = [pc EXCEPT ![c] = "enqueue"]
            /\ slot' = [slot EXCEPT ![c] = EmptySlot]
            /\ UNCHANGED <<result, relay>>
       ELSE /\ pc' = [pc EXCEPT ![c] = "done"]
            /\ result' = [result EXCEPT ![c] = NotStarted(kind[c])]
            /\ relay' = DropRelays(relay, {c})
            /\ UNCHANGED slot
    /\ UNCHANGED <<session, auxVars, edgeVars, queue, rxDropped, kind, reply_to, lpc, msg_counter, cur,
                   pending, bus, busOpen, histVars>>

\* sender.send(AgentRequest {..}).await: waits for capacity, fails once the
\* receiver is gone (the request, with its senders, is dropped)
CallEnqueue(c) ==
    /\ pc[c] = "enqueue"
    /\ IF rxDropped
       THEN /\ pc' = [pc EXCEPT ![c] = "done"]
            /\ result' = [result EXCEPT ![c] = Err(ErrChannelClosed)]
            /\ slot' = [slot EXCEPT ![c] = SlotDropReceiver(SlotDropSender(@))]
            /\ relay' = DropRelays(relay, {c})
            /\ UNCHANGED queue
       ELSE /\ Len(queue) < capacity
            /\ queue' = Append(queue, MakeRequest(c))
            /\ pc' = [pc EXCEPT ![c] = IF kind[c] = "stream" THEN "relay" ELSE "await"]
            /\ UNCHANGED <<result, slot, relay>>
    /\ UNCHANGED <<session, auxVars, edgeVars, rxDropped, kind, reply_to, lpc, msg_counter, cur,
                   pending, bus, busOpen, histVars>>

\* faulty variant: an empty channel is taken for a closed one
RelayEndedWhenEmpty(st, q) == q = <<>>

\* delta_rx.recv() returns None: every delta sender is gone and the channel is
\* drained
RelayEnded(st, q) == st = "closed" /\ q = <<>>

\* stream_message: the relay loop ends and the wait for the terminal reply begins
CallRelayClosed(c) ==
    /\ pc[c] = "relay"
    /\ RelayEnded(relay[c], relayQ[c])
    /\ pc' = [pc EXCEPT ![c] = "await"]
    /\ UNCHANGED <<session, auxVars, edgeVars, queue, rxDropped, kind, reply_to, slot, relay, result, lpc,
                   msg_counter, cur, pending, bus, busOpen, histVars>>

\* timeout(.., response_rx) resolves with the reply, with the agent's error, or
\* with a closed channel
CallReceive(c) ==
    /\ pc[c] = "await"
    /\ slot[c].st \in {"full", "failed", "closed"}
    /\ slot' = [slot EXCEPT ![c] = SlotDropReceiver(@)]
    /\ IF slot[c].st = "full"
       THEN /\ ~CounterBlocked(statusGuard.held)
            /\ messages_handled' = HandledAfter(messages_handled, kind[c])
            /\ tool_calls_total' = ToolCallsAfter(tool_calls_total, kind[c], slot[c].tool_calls)
            /\ result' = [result EXCEPT ![c] =
                   IF kind[c] = "stream" THEN OkUnit
                   ELSE OkResult([response |-> slot[c].val, tool_calls |-> slot[c].tool_calls])]
            /\ pc' = [pc EXCEPT ![c] = IF kind[c] = "stream" THEN "settle" ELSE "done"]
       ELSE /\ result' = [result EXCEPT ![c] =
                   IF slot[c].st = "failed" THEN Err(ErrAgent(slot[c].val))
                   ELSE Err(ErrSlotDropped)]
            /\ pc' = [pc EXCEPT ![c] = "done"]
            /\ UNCHANGED <<messages_handled, tool_calls_total>>
    /\ UNCHANGED <<session, auxVars, agent_sender, status, shutPc, queue, rxDropped, kind, reply_to, relay,
                   lpc, msg_counter, cur, pending, bus, busOpen, histVars>>

\* the ceiling elapses with the slot still unresolved: response_rx is dropped
CallTimeout(c) ==
    /\ pc[c] = "await"
    /\ slot[c].st = "empty"
    /\ slot' = [slot EXCEPT ![c] = SlotDropReceiver(@)]
    /\ result' = [result EXCEPT ![c] = TimeoutErr(kind[c])]
    /\ pc' = [pc EXCEPT ![c] = "done"]
    /\ UNCHANGED <<session, auxVars, edgeVars, queue, rxDropped, kind, reply_to, relay, lpc, msg_counter,
                   cur, pending, bus, busOpen, histVars>>

\* faulty variant: stream_message waits no longer than send_message
CeilingUnaryOnly(k) == UnaryCeiling

\* the ceiling of the wait for the reply: Duration::from_secs(30) / from_secs(120)
Ceiling(k) == IF k = "unary" THEN UnaryCeiling ELSE StreamCeiling

\* time passes for every call inside timeout(.., response_rx); a timer that
\* has reached its ceiling stays there
Tick ==
    /\ \E c \in Calls : pc[c] = "await" /\ waited[c] < Ceiling(kind[c])
    /\ waited' = [c \in Calls |->
           IF pc[c] = "await"
           THEN Min(waited[c] + Quantum, Ceiling(kind[c]))
           ELSE waited[c]]
    /\ UNCHANGED <<liveVars, sideVars, edgeVars, queue, rxDropped, callVars, slot, relay, lpc, msg_counter,
                   cur, pending, bus, busOpen, histVars, session, relayQ, produced,
                   emitted, preq, supplied, startPc, gsLast>>

\* the timeout of a call fires: its ceiling has elapsed on the clock
CallTimeoutAt(c) ==
    /\ waited[c] >= Ceiling(kind[c])
    /\ CallTimeout(c)

\* stream_message: the settling sleep ends and the call returns Ok(())
CallSettle(c) ==
    /\ pc[c] = "settle"
    /\ pc' = [pc EXCEPT ![c] = "done"]
    /\ UNCHANGED <<session, auxVars, edgeVars, queue, rxDropped, kind, reply_to, slot, relay, result, lpc,
                   msg_counter, cur, pending, bus, busOpen, histVars>>

\* a Shutdown RPC arrives
ShutdownCall ==
    /\ shutPc \in {"idle", "done"}
    /\ shutPc' = "status"
    /\ UNCHANGED <<session, auxVars, agent_sender, status, messages_handled, tool_calls_total, queue,
                   rxDropped, callVars, slot, relay, lpc, msg_counter, cur, pending, bus,
                   busOpen, histVars>>

\* status.write().await; status.status = "stopping"; then agent_sender.write() queues
ShutdownStatus ==
    /\ shutPc = "status"
    /\ status' = "stopping"
    /\ shutPc' = "sever"
    /\ UNCHANGED <<session, auxVars, agent_sender, messages_handled, tool_calls_total, queue, rxDropped,
                   callVars, slot, relay, lpc, msg_counter, cur, pending, bus, busOpen,
                   histVars>>

\* faulty variant: shutdown leaves the sender in place
SeveredSenderKept == TRUE

\* what shutdown stores in agent_sender
SeveredSender == FALSE

\* the write guard is granted once no read guard is held; *sender = None
ShutdownSever ==
    /\ shutPc = "sever"
    /\ Readers = {}
    /\ agent_sender' = SeveredSender
    /\ shutPc' = "done"
    /\ UNCHANGED <<session, auxVars, status, messages_handled, tool_calls_total, queue, rxDropped,
                   callVars, slot, relay, lpc, msg_counter, cur, pending, bus, busOpen,
                   histVars>>

\* faulty variant: the newest chunk is taken first
RelayTakeNewest(q) == [chunk |-> q[Len(q)], rest |-> SubSeq(q, 1, Len(q) - 1)]

\* delta_rx.recv(): the oldest chunk of the channel, and the channel afterwards
RelayTake(q) == [chunk |-> Head(q), rest |-> Tail(q)]

\* stream_message: one turn of the relay loop: delta_rx.recv() yields a chunk
\* and emit(bytes) passes it on; a failing emit ends the call (emit(bytes)?),
\* dropping delta_rx and response_rx
CallRelayEmit(c, ok) ==
    /\ pc[c] = "relay"
    /\ relayQ[c] # <<>>
    /\ LET took == RelayTake(relayQ[c])
       IN  IF ok
           THEN /\ relayQ' = [relayQ EXCEPT ![c] = took.rest]
                /\ emitted' = [emitted EXCEPT ![c] = Append(@, took.chunk)]
                /\ UNCHANGED <<pc, result, slot>>
           ELSE /\ relayQ' = [relayQ EXCEPT ![c] = <<>>]
                /\ pc' = [pc EXCEPT ![c] = "done"]
                /\ result' = [result EXCEPT ![c] = Err(ErrEmit)]
                /\ slot' = [slot EXCEPT ![c] = SlotDropReceiver(@)]
                /\ UNCHANGED emitted
    /\ UNCHANGED <<liveVars, sideVars, edgeVars, queue, rxDropped, kind, reply_to, relay, lpc, msg_counter,
                   cur, pending, bus, busOpen, histVars, session, waited, produced,
                   preq, supplied, startPc, gsLast>>

----------------------------------------------------------------------------
(* The agent loop of start_dink_listener: the holder of Receiver<AgentRequest> *)

\* the text of the agent's answer to the request of call c
ReplyText(c) == "reply-" \o ToString(c)

\* Ok(AgentResponse { response: text, tool_calls, .. }); start_dink_listener
\* itself always passes an empty tool_calls list, other holders of the
\* receiver may pass records
OkReply(c, n) == [tag |-> "Ok", response |-> ReplyText(c), tool_calls |-> n]

\* Err(e) of a failed turn
ErrReply == [tag |-> "Err", response |-> "turn failed", tool_calls |-> 0]

\* the answers the agent loop may give to the request of call c
Replies(c) == {OkReply(c, n) : n \in 0 .. MaxToolCalls} \cup {ErrReply}

\* the request is done with once both of its senders are gone
AfterRelease(w) == IF ~w.tx /\ ~w.delta THEN NoWork ELSE w

\* faulty variant: the loop takes a request while it still holds the last one
LoopIdleAlways(w) == TRUE

\* the loop is back at its select!: the request of the last iteration, with
\* both of its senders, is gone
LoopIdle(w) == w = NoWork

\* Some(req) = agent_rx.recv(): the branch of the select! that takes a request
ProcRecv ==
    /\ LoopIdle(preq)
    /\ loopPc = "select"
    /\ ~rxDropped
    /\ Len(queue) > 0
    /\ preq' = [call |-> Head(queue).call, tx |-> TRUE, delta |-> Head(queue).streaming]
    /\ queue' = Tail(queue)
    /\ UNCHANGED <<liveVars, sideVars, edgeVars, rxDropped, callVars, slot, relay, lpc, msg_counter, cur,
                   pending, bus, busOpen, histVars, session, waited, relayQ, produced,
                   emitted, supplied, startPc, gsLast>>

\* faulty variant: a write to a relay whose receiver is gone waits like a
\* write to a full one
WriteOutcomeWaitsOnClosed(receiver_gone, full) ==
    IF receiver_gone \/ full THEN "wait" ELSE "sent"

\* delta_tx.send(chunk).await: fails at once when the receiver is gone, waits
\* for capacity when the channel is full
WriteOutcome(receiver_gone, full) ==
    IF receiver_gone THEN "closed" ELSE IF full THEN "wait" ELSE "sent"

\* turn_streaming sends a delta on delta_tx: the chunk is put on the channel,
\* or refused when stream_message has returned and dropped delta_rx
ProcChunk ==
    /\ preq.delta
    /\ LET c == preq.call
           w == WriteOutcome(pc[c] = "done", Len(relayQ[c]) >= RelayCap)
       IN  /\ Len(produced[c]) + refused[c] < MaxChunks
           /\ w # "wait"
           /\ IF w = "sent"
              THEN /\ relayQ' = [relayQ EXCEPT ![c] = Append(@, Len(produced[c]) + 1)]
                   /\ produced' = [produced EXCEPT ![c] = Append(@, Len(produced[c]) + 1)]
                   /\ UNCHANGED refused
              ELSE /\ refused' = [refused EXCEPT ![c] = @ + 1]
                   /\ UNCHANGED <<relayQ, produced>>
    /\ UNCHANGED <<liveVars, wdVars, markVars, probeVars, toolVars, executed, table, loopVars,
                   statusVars, edgeVars, queue, rxDropped, callVars, slot, relay, lpc, msg_counter,
                   cur, pending, bus, busOpen, histVars, session, waited, emitted, preq,
                   supplied, startPc, gsLast>>

\* the last delta sender is dropped: the relay closes
ProcCloseRelay ==
    /\ preq.delta
    /\ relay' = DropRelays(relay, {preq.call})
    /\ preq' = AfterRelease([preq EXCEPT !.delta = FALSE])
    /\ UNCHANGED <<liveVars, sideVars, edgeVars, queue, rxDropped, callVars, slot, lpc, msg_counter, cur,
                   pending, bus, busOpen, histVars, session, waited, relayQ, produced,
                   emitted, supplied, startPc, gsLast>>

\* let _ = req.response_tx.send(response)
ProcResolve(r) ==
    /\ preq.tx
    /\ LET c == preq.call
       IN  /\ slot' = [slot EXCEPT ![c] =
                  IF r.tag = "Ok" THEN SlotSend(@, r) ELSE SlotFail(@, r.response)]
           /\ supplied' = [supplied EXCEPT ![c] = r]
    /\ preq' = AfterRelease([preq EXCEPT !.tx = FALSE])
    /\ UNCHANGED <<liveVars, sideVars, edgeVars, queue, rxDropped, callVars, relay, lpc, msg_counter, cur,
                   pending, bus, busOpen, histVars, session, waited, relayQ, produced,
                   emitted, startPc, gsLast>>

\* the task that owns the receiver ends: agent_rx is dropped with the requests
\* still queued, and so is the request in processing
ProcExit ==
    /\ ~rxDropped
    /\ rxDropped' = TRUE
    /\ queue' = <<>>
    /\ preq' = NoWork
    /\ slot' = DropSenders(slot, CallsOf(queue) \cup (IF preq.tx THEN {preq.call} ELSE {}))
    /\ relay' = DropRelays(relay, CallsOf(queue) \cup (IF preq.delta THEN {preq.call} ELSE {}))
    /\ UNCHANGED <<liveVars, sideVars, edgeVars, callVars, lpc, msg_counter, cur, pending, bus, busOpen,
                   histVars, session, waited, relayQ, produced, emitted, supplied,
                   startPc, gsLast>>

----------------------------------------------------------------------------
(* DinkLiveness *)

\* is_alive() has not been called on the value
NotSeen == [val |-> TRUE, at |-> -1]

\* faulty variant: a clone gets a cell of its own, copied from the original
CloneCellCopied(cell, fresh) == fresh

\* #[derive(Clone)] on Arc<AtomicBool>: the clone points to the cell of the original
CloneCell(cell, fresh) == cell

\* self.alive.load(SeqCst)
is_alive(h) == alive[clones[h]]

\* start_health_server has not been called
HealthNotStarted == -1

\* no health request has been answered yet
NoAnswer == [code |-> "", tracker |-> FALSE, flag |-> TRUE]

\* discover has not been called yet
NoDiscovery == [ran |-> FALSE]

\* DinkServiceTool::new has not been called yet
NoTool == [made |-> FALSE]

\* DinkLiveness::new(): AtomicBool::new(true)
NewAlive == TRUE

\* liveness.clone()
LivenessClone(h) ==
    /\ Len(clones) < MaxClones
    /\ LET cell == CloneCell(clones[h], Len(alive) + 1)
       IN  /\ clones' = Append(clones, cell)
           /\ alive' = IF cell > Len(alive) THEN Append(alive, alive[clones[h]]) ELSE alive
    /\ seen' = Append(seen, NotSeen)
    /\ UNCHANGED <<lastMark, nMarks, edgeVars, queue, rxDropped, callVars, slot, relay,
                   lpc, msg_counter, cur, pending, bus, busOpen, histVars, session,
                   waited, relayQ, produced, emitted, preq, supplied, startPc, gsLast,
                   sideVars>>

\* Notify::notify_waiters(): a Notified future that exists is woken, and no
\* permit is kept for a future created later
NotifyWaiters(w) == IF w = "waiting" THEN "notified" ELSE w

\* the time the flag has been false without interruption, after a store of val
DeadForAfterStore(was, val) == IF val \/ was THEN 0 ELSE deadFor

\* mark_dead(): self.alive.store(false, SeqCst), then notify_waiters()
mark_dead(h) ==
    /\ nMarks < MaxMarks
    /\ alive' = [alive EXCEPT ![clones[h]] = FALSE]
    /\ lastMark' = "mark_dead"
    /\ nMarks' = nMarks + 1
    /\ woken' = NotifyWaiters(woken)
    /\ deadFor' = DeadForAfterStore(is_alive(h), FALSE)
    /\ everDead' = TRUE
    /\ UNCHANGED <<clones, seen, edgeVars, queue, rxDropped, callVars, slot, relay,
                   lpc, msg_counter, cur, pending, bus, busOpen, histVars, session,
                   waited, relayQ, produced, emitted, preq, supplied, startPc, gsLast,
                   wpc, wdExit, slept, elapsed, recovered, notifyDue, everAlive,
                   probeVars, toolVars, lateVars>>

\* mark_alive(): self.alive.store(true, SeqCst)
mark_alive(h) ==
    /\ nMarks < MaxMarks
    /\ alive' = [alive EXCEPT ![clones[h]] = TRUE]
    /\ lastMark' = "mark_alive"
    /\ nMarks' = nMarks + 1
    /\ deadFor' = DeadForAfterStore(is_alive(h), TRUE)
    /\ everAlive' = (everAlive \/ wpc # "none")
    /\ UNCHANGED <<clones, seen, edgeVars, queue, rxDropped, callVars, slot, relay,
                   lpc, msg_counter, cur, pending, bus, busOpen, histVars, session,
                   waited, relayQ, produced, emitted, preq, supplied, startPc, gsLast,
                   wdVars, notifyDue, everDead, probeVars, toolVars, lateVars>>

\* a caller reads the flag through one of the clones
ReadAlive(h) ==
    /\ seen' = [seen EXCEPT ![h] = [val |-> is_alive(h), at |-> nMarks]]
    /\ UNCHANGED <<alive, clones, lastMark, nMarks, edgeVars, queue, rxDropped,
                   callVars, slot, relay, lpc, msg_counter, cur, pending, bus, busOpen,
                   histVars, session, waited, relayQ, produced, emitted, preq, supplied,
                   startPc, gsLast, sideVars>>

----------------------------------------------------------------------------
(* spawn_watchdog and wait_until_dead *)

\* the DinkLiveness value moved into the watchdog task
WdLiveness == 1

\* the task has exited the process or returned true
Triggered == wpc \in {"exited", "returned"}

\* faulty variant: wait_until_dead returns whatever the flag says
WaitReturnsAlways(a) == TRUE

\* if !self.is_alive() { return; }
WaitReturns(a) == ~a

\* faulty variant: the grace sleep is over as soon as it starts
SleepOverAtOnce(s) == TRUE

\* tokio::time::sleep(config.grace_period) has completed
SleepOver(s) == s >= Grace

\* faulty variant: the sleep goes on from the time already slept
SleepStartCarried(s) == s

\* tokio::time::sleep(config.grace_period): a new timer for each call
SleepStart(s) == 0

\* faulty variant: the task triggers after the sleep without reading the flag
StillDeadUnchecked(a) == TRUE

\* if !liveness.is_alive() after the sleep
StillDead(a) == ~a

\* if config.exit_on_timeout { std::process::exit(1); } return true;
TerminalAction(exit) == IF exit THEN "exited" ELSE "returned"

\* spawn_watchdog(liveness, config): the task starts in wait_until_dead
WdSpawn(exit) ==
    /\ wpc = "none"
    /\ wpc' = "wait_check"
    /\ wdExit' = exit
    /\ everAlive' = is_alive(WdLiveness)
    /\ UNCHANGED <<woken, slept, elapsed, recovered, notifyDue, deadFor, everDead,
                   probeVars, toolVars, lateVars, liveVars, edgeVars, queue, rxDropped, callVars,
                   slot, relay, lpc, msg_counter, cur, pending, bus, busOpen, histVars,
                   session, waited, relayQ, produced, emitted, preq, supplied, startPc,
                   gsLast>>

\* wait_until_dead, top of the loop: the flag is read, and the task returns to
\* the grace sleep if it is false
WdWaitCheck ==
    /\ wpc = "wait_check"
    /\ wpc' = IF WaitReturns(is_alive(WdLiveness)) THEN "sleep" ELSE "wait_notified"
    /\ slept' = SleepStart(slept)
    /\ UNCHANGED <<wdExit, woken, elapsed, recovered, markVars,
                   probeVars, toolVars, lateVars, liveVars, edgeVars, queue, rxDropped, callVars,
                   slot, relay, lpc, msg_counter, cur, pending, bus, busOpen, histVars,
                   session, waited, relayQ, produced, emitted, preq, supplied, startPc,
                   gsLast>>

\* self.notify_dead.notified().await: the Notified future is created and the
\* task parks on it
WdNotified ==
    /\ wpc = "wait_notified"
    /\ woken' = "waiting"
    /\ wpc' = "wait_parked"
    /\ UNCHANGED <<wdExit, slept, elapsed, recovered, markVars,
                   probeVars, toolVars, lateVars, liveVars, edgeVars, queue, rxDropped, callVars,
                   slot, relay, lpc, msg_counter, cur, pending, bus, busOpen, histVars,
                   session, waited, relayQ, produced, emitted, preq, supplied, startPc,
                   gsLast>>

\* the Notified future completes after a notify_waiters()
WdWake ==
    /\ wpc = "wait_parked"
    /\ woken = "notified"
    /\ woken' = "none"
    /\ wpc' = "wait_recheck"
    /\ UNCHANGED <<wdExit, slept, elapsed, recovered, markVars,
                   probeVars, toolVars, lateVars, liveVars, edgeVars, queue, rxDropped, callVars,
                   slot, relay, lpc, msg_counter, cur, pending, bus, busOpen, histVars,
                   session, waited, relayQ, produced, emitted, preq, supplied, startPc,
                   gsLast>>

\* wait_until_dead, after the wake-up: the flag is read again
WdRecheck ==
    /\ wpc = "wait_recheck"
    /\ wpc' = IF WaitReturns(is_alive(WdLiveness)) THEN "sleep" ELSE "wait_check"
    /\ slept' = SleepStart(slept)
    /\ UNCHANGED <<wdExit, woken, elapsed, recovered, markVars,
                   probeVars, toolVars, lateVars, liveVars, edgeVars, queue, rxDropped, callVars,
                   slot, relay, lpc, msg_counter, cur, pending, bus, busOpen, histVars,
                   session, waited, relayQ, produced, emitted, preq, supplied, startPc,
                   gsLast>>

\* tokio::time::sleep(config.grace_period).await returns
WdSleepOver ==
    /\ wpc = "sleep"
    /\ SleepOver(slept)
    /\ wpc' = "step3"
    /\ UNCHANGED <<wdExit, woken, slept, elapsed, recovered, markVars,
                   probeVars, toolVars, lateVars, liveVars, edgeVars, queue, rxDropped, callVars,
                   slot, relay, lpc, msg_counter, cur, pending, bus, busOpen, histVars,
                   session, waited, relayQ, produced, emitted, preq, supplied, startPc,
                   gsLast>>

\* step 3 and step 4: the flag is read once; the task triggers if it is false,
\* and goes back to wait_until_dead otherwise
WdStep3 ==
    /\ wpc = "step3"
    /\ IF StillDead(is_alive(WdLiveness))
       THEN /\ wpc' = TerminalAction(wdExit)
            /\ UNCHANGED recovered
       ELSE /\ wpc' = "wait_check"
            /\ recovered' = TRUE
    /\ UNCHANGED <<wdExit, woken, slept, elapsed, markVars,
                   probeVars, toolVars, lateVars, liveVars, edgeVars, queue, rxDropped, callVars,
                   slot, relay, lpc, msg_counter, cur, pending, bus, busOpen, histVars,
                   session, waited, relayQ, produced, emitted, preq, supplied, startPc,
                   gsLast>>

\* the task is parked: in the grace sleep, on its Notified future, or finished
WdParked ==
    \/ wpc = "sleep" /\ ~SleepOver(slept)
    \/ wpc = "wait_parked" /\ woken # "notified"
    \/ Triggered

\* time passes while the task is parked (its other steps take no time)
WdTick ==
    /\ WdParked
    /\ wpc = "sleep" \/ elapsed < Horizon
    /\ slept' = IF wpc = "sleep" THEN Min(slept + Quantum, Grace) ELSE slept
    /\ elapsed' = Min(elapsed + Quantum, Horizon)
    /\ deadFor' = IF is_alive(WdLiveness) THEN 0 ELSE Min(deadFor + Quantum, Horizon)
    /\ UNCHANGED <<wpc, wdExit, woken, recovered, notifyDue, everAlive, everDead,
                   probeVars, toolVars, lateVars, liveVars, edgeVars, queue, rxDropped, callVars,
                   slot, relay, lpc, msg_counter, cur, pending, bus, busOpen, histVars,
                   session, waited, relayQ, produced, emitted, preq, supplied, startPc,
                   gsLast>>

\* mark_dead(), first statement: self.alive.store(false, SeqCst)
MarkDeadStore(h) ==
    /\ nMarks < MaxMarks
    /\ alive' = [alive EXCEPT ![clones[h]] = FALSE]
    /\ lastMark' = "mark_dead"
    /\ nMarks' = nMarks + 1
    /\ notifyDue' = notifyDue + 1
    /\ deadFor' = DeadForAfterStore(is_alive(h), FALSE)
    /\ everDead' = TRUE
    /\ UNCHANGED <<clones, seen, wdVars, everAlive,
                   probeVars, toolVars, lateVars, edgeVars, queue, rxDropped, callVars,
                   slot, relay, lpc, msg_counter, cur, pending, bus, busOpen, histVars,
                   session, waited, relayQ, produced, emitted, preq, supplied, startPc,
                   gsLast>>

\* mark_dead(), second statement: self.notify_dead.notify_waiters()
MarkDeadNotify ==
    /\ notifyDue > 0
    /\ notifyDue' = notifyDue - 1
    /\ woken' = NotifyWaiters(woken)
    /\ UNCHANGED <<wpc, wdExit, slept, elapsed, recovered, deadFor, everAlive, everDead,
                   probeVars, toolVars, lateVars, liveVars, edgeVars, queue, rxDropped, callVars,
                   slot, relay, lpc, msg_counter, cur, pending, bus, busOpen, histVars,
                   session, waited, relayQ, produced, emitted, preq, supplied, startPc,
                   gsLast>>

----------------------------------------------------------------------------
(* start_health_server *)

\* start_health_server(None): no liveness tracker is configured
NoLiveness == 0

\* liveness.as_ref().map_or(true, |l| l.is_alive())
ProbeAlive(l) == IF l = NoLiveness THEN TRUE ELSE is_alive(l)

\* faulty variant: the handler answers 200 whatever the flag says
HealthAnswerAlwaysOk(a) == "OK"

\* if alive { (StatusCode::OK, ..) } else { (StatusCode::SERVICE_UNAVAILABLE, ..) }
HealthAnswer(a) == IF a THEN "OK" ELSE "SERVICE_UNAVAILABLE"

\* start_health_server(liveness): the route closure takes the Option
StartHealthServer(l) ==
    /\ hsLiveness = HealthNotStarted
    /\ hsLiveness' = l
    /\ UNCHANGED <<health, wdVars, markVars, toolVars, lateVars, liveVars, edgeVars, queue,
                   rxDropped, callVars, slot, relay, lpc, msg_counter, cur, pending, bus,
                   busOpen, histVars, session, waited, relayQ, produced, emitted, preq,
                   supplied, startPc, gsLast>>

\* GET /v1/health: the flag is read when the request arrives
HealthProbe ==
    /\ hsLiveness # HealthNotStarted
    /\ health' = [code |-> HealthAnswer(ProbeAlive(hsLiveness)),
                  tracker |-> hsLiveness # NoLiveness,
                  flag |-> lastMark # "mark_dead"]
    /\ UNCHANGED <<hsLiveness, wdVars, markVars, toolVars, lateVars, liveVars, edgeVars, queue,
                   rxDropped, callVars, slot, relay, lpc, msg_counter, cur, pending, bus,
                   busOpen, histVars, session, waited, relayQ, produced, emitted, preq,
                   supplied, startPc, gsLast>>

----------------------------------------------------------------------------
(* DinkServiceTool::new and to_snake_case *)

\* the letters char::to_ascii_lowercase changes, and what it makes of them
AsciiUpper == "ABCDEFGHIJKLMNOPQRSTUVWXYZ"
AsciiLower == "abcdefghijklmnopqrstuvwxyz"

\* uppercase letters outside ASCII (char::is_uppercase follows Unicode): a sample
OtherUppercase == {"É"}

\* to_ascii_lowercase as a table: each ASCII uppercase letter and its lowercase
AsciiLowercase ==
    [ch \in {SubSeq(AsciiUpper, i, i) : i \in 1 .. Len(AsciiUpper)} |->
        LET i == CHOOSE k \in 1 .. Len(AsciiUpper) : SubSeq(AsciiUpper, k, k) = ch
        IN  SubSeq(AsciiLower, i, i)]

\* ch.is_uppercase()
is_uppercase(ch) == ch \in DOMAIN AsciiLowercase \/ ch \in OtherUppercase

\* ch.to_ascii_lowercase()
to_ascii_lowercase(ch) == IF ch \in DOMAIN AsciiLowercase THEN AsciiLowercase[ch] ELSE ch

\* faulty variant: the underscore is pushed before a leading capital as well
SnakeSeparatorAlways(i) == "_"

\* if i > 0 { out.push('_'); }
SnakeSeparator(i) == IF i > 0 THEN "_" ELSE ""

\* the loop of to_snake_case: rest is what s.chars() still holds, i its index
RECURSIVE SnakeLoop(_, _, _)
SnakeLoop(rest, i, out) ==
    IF Len(rest) = 0 THEN out
    ELSE LET ch == Head(rest)
         IN  SnakeLoop(Tail(rest), i + 1,
                       IF is_uppercase(ch)
                       THEN out \o SnakeSeparator(i) \o to_ascii_lowercase(ch)
                       ELSE out \o ch)

\* to_snake_case(s)
to_snake_case(s) == SnakeLoop(s, 0, "")

\* s.strip_suffix(suffix).unwrap_or(s)
strip_suffix(s, suffix) ==
    IF Len(s) >= Len(suffix) /\ SubSeq(s, Len(s) - Len(suffix) + 1, Len(s)) = suffix
    THEN SubSeq(s, 1, Len(s) - Len(suffix))
    ELSE s

\* faulty variant: the service is left out of the name
ToolNameOfMethod(service_name, method_name) == "dink_" \o to_snake_case(method_name)

\* format!("dink_{}_{}", to_snake_case(svc), to_snake_case(&method_name))
tool_name(service_name, method_name) ==
    "dink_" \o to_snake_case(strip_suffix(service_name, "Service"))
            \o "_" \o to_snake_case(method_name)

\* the characters the generated names are made of
NameChars == {"A", "z", "É"}

\* the strings of at most n characters of NameChars
RECURSIVE NamesUpTo(_)
NamesUpTo(n) ==
    IF n = 0 THEN {""}
    ELSE LET shorter == NamesUpTo(n - 1)
         IN  shorter \cup {w \o ch : w \in shorter, ch \in NameChars}

\* the names of the tests of service_tool.rs
TestNames == {"AgentToolsService", "ExecCommand", "A", "already_snake", "HTMLParser", ""}

\* the service names given to DinkServiceTool::new: generated names, with and
\* without the conventional suffix, and the names of the tests
ServiceInputs ==
    NamesUpTo(MaxNameLen) \cup {w \o "Service" : w \in NamesUpTo(MaxNameLen)} \cup TestNames

\* the method names given to DinkServiceTool::new
MethodInputs == NamesUpTo(MaxNameLen) \cup TestNames

\* the edges a tool may be bound to
EdgeIds == {"edge-1", "edge-2"}

\* the DinkServiceTool that new builds (the fields that identify it)
DinkServiceTool(edge_id, service_name, method_name) ==
    [edge_id |-> edge_id, service_name |-> service_name, method_name |-> method_name,
     tool_name |-> tool_name(service_name, method_name)]

\* DinkServiceTool::new(runtime, edge_id, service_name, method_name, ..)
DinkServiceToolNew(edge_id, service_name, method_name) ==
    /\ made = NoTool
    /\ made' = DinkServiceTool(edge_id, service_name, method_name)
    /\ UNCHANGED <<discovered, lateVars, wdVars, markVars, probeVars, liveVars, edgeVars, queue,
                   rxDropped, callVars, slot, relay, lpc, msg_counter, cur, pending, bus,
                   busOpen, histVars, session, waited, relayQ, produced, emitted, preq,
                   supplied, startPc, gsLast>>

----------------------------------------------------------------------------
(* DinkToolProvider::discover *)

\* known_methods(service)
known_methods(service) ==
    CASE service = "AgentToolsService" ->
            <<"ExecCommand", "ReadFile", "WriteFile", "ListFiles", "SearchCodebase",
              "RunTests", "InstallPackage", "ExportPatch", "DeleteFile">>
      [] service = "ZeroClawService" ->
            <<"SendMessage", "GetStatus", "RecallMemory", "UpdateConfig", "Shutdown">>
      [] service = "WorkspaceService" ->
            <<"CreateSandbox", "DestroySandbox", "GetStatus", "ListSandboxes">>
      [] service = "AgentService" ->
            <<"CreateSession", "SendMessage", "GetEvents", "TerminateSession",
              "Health", "ListAgents">>
      [] OTHER -> <<>>

\* faulty variant: the wildcard entry is taken for a service name
AllowedListedOnly(services, service_name) == service_name \in services

\* wildcard || config.services.contains(service_name)
Allowed(services, service_name) == "*" \in services \/ service_name \in services

\* the concatenation of a sequence of sequences
RECURSIVE ConcatAll(_)
ConcatAll(ss) == IF Len(ss) = 0 THEN <<>> ELSE Head(ss) \o ConcatAll(Tail(ss))

\* the body of the loop over edge.services: the tools pushed for one service name
ServiceTools(services, edge, service_name) ==
    IF ~Allowed(services, service_name) THEN <<>>
    ELSE [i \in 1 .. Len(known_methods(service_name)) |->
             DinkServiceTool(edge.id, service_name, known_methods(service_name)[i])]

\* the body of the loop over edges: the tools pushed for one edge
EdgeTools(services, edge) ==
    ConcatAll([k \in 1 .. Len(edge.services) |->
                  ServiceTools(services, edge, edge.services[k])])

\* discover(config, runtime): found is what center_client / discover_edges gave
discover(services, found) ==
    IF services = {} THEN <<>>
    ELSE IF found.center # "ok" THEN <<>>
    ELSE ConcatAll([j \in 1 .. Len(found.edges) |-> EdgeTools(services, found.edges[j])])

\* the service names edges advertise: two of the table and one outside it
AdvertisedOrder == <<"AgentToolsService", "UnknownService", "AgentService">>
AdvertisedNames == {AdvertisedOrder[i] : i \in 1 .. Len(AdvertisedOrder)}

\* what one edge advertises: any of these names, each at most once
AdvertisedLists ==
    {SelectSeq(AdvertisedOrder, LAMBDA s : s \in S) : S \in SUBSET AdvertisedNames}

\* EdgeInfo.id of the j-th online edge
EdgeId(j) == "edge-" \o ToString(j)

\* what runtime.center_client() and discover_edges(online_only) can give:
\* no client, an error, or the online edges
Found ==
    {[center |-> c, edges |-> <<>>] : c \in {"none", "error"}}
    \cup {[center |-> "ok",
           edges |-> [j \in 1 .. Len(ls) |-> [id |-> EdgeId(j), services |-> ls[j]]]] :
             ls \in UNION {[1 .. n -> AdvertisedLists] : n \in 0 .. MaxEdges}}

\* config.services: any set of the advertised names and the wildcard
ConfigServices == SUBSET (AdvertisedNames \cup {"*"})

\* DinkToolProvider::discover(config, runtime)
Discover(services, found) ==
    /\ discovered = NoDiscovery
    /\ discovered' = [ran |-> TRUE, services |-> services, found |-> found,
                      tools |-> discover(services, found)]
    /\ UNCHANGED <<made, lateVars, wdVars, markVars, probeVars, liveVars, edgeVars, queue,
                   rxDropped, callVars, slot, relay, lpc, msg_counter, cur, pending, bus,
                   busOpen, histVars, session, waited, relayQ, produced, emitted, preq,
                   supplied, startPc, gsLast>>

----------------------------------------------------------------------------
(* DinkServiceTool::execute *)

\* A String, as far as truncation can tell: `lead` one-byte characters followed
\* by characters of the byte widths listed in `rest` (UTF-8: 1 to 4 bytes each).
\* The canonical form keeps every leading one-byte character in `lead`.
RECURSIVE Canon(_)
Canon(s) ==
    IF s.rest # <<>> /\ Head(s.rest) = 1
    THEN Canon([lead |-> s.lead + 1, rest |-> Tail(s.rest)])
    ELSE s

\* the widths of a UTF-8 encoded character
CharWidths == 1 .. 4

RECURSIVE SumTo(_, _)
SumTo(w, k) == IF k = 0 THEN 0 ELSE w[k] + SumTo(w, k - 1)

\* str::len: the length in bytes
ByteLen(s) == s.lead + SumTo(s.rest, Len(s.rest))

\* str::is_char_boundary(i): the start, the end, or the first byte of a character
is_char_boundary(s, i) ==
    \/ i \in 0 .. s.lead
    \/ \E k \in 1 .. Len(s.rest) : i = s.lead + SumTo(s.rest, k)

\* str::floor_char_boundary(index): the whole length when the index is past the
\* end, else the closest boundary at or below the index
RECURSIVE FloorFrom(_, _)
FloorFrom(s, i) == IF is_char_boundary(s, i) THEN i ELSE FloorFrom(s, i - 1)

floor_char_boundary(s, index) ==
    IF index >= ByteLen(s) THEN ByteLen(s) ELSE FloorFrom(s, index)

\* &output[..boundary]: the characters that end at or before the boundary
Prefix(s, boundary) ==
    IF boundary <= s.lead
    THEN [lead |-> boundary, rest |-> <<>>]
    ELSE [lead |-> s.lead,
          rest |-> SubSeq(s.rest, 1,
                          CHOOSE k \in 0 .. Len(s.rest) : s.lead + SumTo(s.rest, k) = boundary)]

\* String::push_str
push_str(s, t) ==
    Canon([lead |-> s.lead, rest |-> s.rest \o [i \in 1 .. t.lead |-> 1] \o t.rest])

\* String::new()
EmptyString == [lead |-> 0, rest |-> <<>>]

\* "\n... [truncated]": 16 one-byte characters
TruncationMarker == [lead |-> 16, rest |-> <<>>]

\* output.len() > MAX_OUTPUT_BYTES
\* faulty variant: a reply of exactly the limit counts as too long
TooLongFromLimit(n) == n >= MAX_OUTPUT_BYTES
TooLong(n) == n > MAX_OUTPUT_BYTES

\* the truncation of the decoded reply
Truncate(output) ==
    IF TooLong(ByteLen(output))
    THEN push_str(Prefix(output, floor_char_boundary(output, MAX_OUTPUT_BYTES)),
                  TruncationMarker)
    ELSE output

\* the arguments: null and the empty object are sent as "{}"
NormaliseArgs(args) == IF args \in {"null", "{}"} THEN "{}" ELSE args

\* anyhow::Result<Vec<u8>> of a peer call; the reply is given by the String it
\* decodes to (pretty-printed JSON, or the lossy UTF-8 reading of the bytes)
EdgeOk(decoded) == [ok |-> TRUE, decoded |-> decoded]
EdgeErr(text) == [ok |-> FALSE, text |-> text]

NoCenterClient == "Cannot call edge: CenterClient is not connected"

\* DinkRuntime::call_edge: fails without a center client, else gives what the
\* center client's call gives
call_edge(center_client, peer) ==
    IF ~center_client THEN EdgeErr(NoCenterClient) ELSE peer

\* the Err arm of the match on call_edge
\* faulty variant: the failure of the peer call is passed on with `?`
OnCallErrorPropagated(text) == [is_ok |-> FALSE, err |-> text]
OnCallError(text) ==
    [is_ok |-> TRUE, success |-> FALSE, output |-> EmptyString, error |-> <<text>>]

\* execute(args): what it returns (error: <<>> is None, <<e>> is Some(e))
execute(center_client, peer) ==
    LET r == call_edge(center_client, peer) IN
    IF ~r.ok
    THEN OnCallError(r.text)
    ELSE [is_ok |-> TRUE, success |-> TRUE, output |-> Truncate(r.decoded), error |-> <<>>]

NotExecuted == [ran |-> FALSE]

\* the arguments a tool is called with
ArgsInputs == {"null", "{}", "{\"path\":\"a\"}"}

RECURSIVE WidthSeqs(_)
WidthSeqs(n) ==
    IF n = 0 THEN {<<>>}
    ELSE WidthSeqs(n - 1) \cup
         {Append(w, c) : w \in {v \in WidthSeqs(n - 1) : Len(v) = n - 1}, c \in CharWidths}

\* the decoded replies: short ones, and ones whose one-byte run ends within
\* LeadSlack bytes of the limit, followed by up to MaxTail more characters
DecodedReplies ==
    {Canon([lead |-> l, rest |-> w]) :
        l \in {0} \cup ((MAX_OUTPUT_BYTES - LeadSlack) .. (MAX_OUTPUT_BYTES + 1)),
        w \in WidthSeqs(MaxTail)}

\* what the center client's call can give
PeerOutcomes == {EdgeErr("edge offline"), EdgeErr("timeout")} \cup {EdgeOk(s) : s \in DecodedReplies}

\* one execute call
Execute(args, center_client, peer) ==
    /\ executed = NotExecuted
    /\ executed' = [ran |-> TRUE, request |-> NormaliseArgs(args),
                    center_client |-> center_client,
                    edge |-> call_edge(center_client, peer),
                    returned |-> execute(center_client, peer)]
    /\ UNCHANGED <<settledVars, table, loopVars, refused, statusVars>>

----------------------------------------------------------------------------
(* The known-methods table *)

\* the services with an arm in known_methods
KnownServices == {"AgentToolsService", "ZeroClawService", "WorkspaceService", "AgentService"}

\* the (service, method) pairs of the table
KnownPairs ==
    UNION {{<<s, known_methods(s)[k]>> : k \in 1 .. Len(known_methods(s))} : s \in KnownServices}

\* DinkServiceTool::new for a pair of the table, as discover calls it
TableNew(edge_id, pair) ==
    /\ Cardinality(table) < MaxTools
    /\ table' = table \cup {DinkServiceTool(edge_id, pair[1], pair[2])}
    /\ UNCHANGED <<settledVars, executed, loopVars, refused, statusVars>>

----------------------------------------------------------------------------
(* The select loop of start_dink_listener and update_config *)

\* agent_rx.recv() gives None: the Sender in agent_sender, the only one, is
\* dropped and the queue is drained
AgentChannelClosed == ~agent_sender /\ queue = <<>>

\* config_rx.recv() gives None: config_tx, a field of the edge service that
\* start_dink_listener holds, is dropped and the channel is drained
ConfigChannelClosed == ~config_tx /\ configQ = <<>>

\* agent_rx.recv() gives None: the pattern Some(req) fails and the branch is
\* disabled; `else => break` runs only if the config branch is disabled too,
\* otherwise the select! goes on waiting on config_rx alone
LoopRecvNone ==
    /\ preq = NoWork
    /\ loopPc = "select"
    /\ ~rxDropped
    /\ AgentChannelClosed
    /\ IF ConfigChannelClosed
       THEN /\ loopPc' = "returned"
            /\ rxDropped' = TRUE
       ELSE /\ loopPc' = "config_only"
            /\ UNCHANGED rxDropped
    /\ UNCHANGED <<edgeVars, queue, callVars, slot, relay, lpc, msg_counter, cur,
                   pending, bus, busOpen, histVars, session, waited, relayQ, produced,
                   emitted, preq, supplied, startPc, gsLast, liveVars, wdVars, markVars,
                   probeVars, toolVars, executed, table, configQ, config_tx, nUpdates,
                   capacity, applied, refused, statusVars>>

\* Some(update) = config_rx.recv(): agent.apply_config_update(&update), and
\* the loop comes back to a new select!
LoopConfig ==
    /\ preq = NoWork
    /\ loopPc \in {"select", "config_only"}
    /\ configQ # <<>>
    /\ configQ' = Tail(configQ)
    /\ applied' = Head(configQ)
    /\ loopPc' = "select"
    /\ UNCHANGED <<settledVars, executed, table, config_tx, nUpdates, capacity, refused, statusVars>>

\* update_config: self.config_tx.send(update).await when a key was applied;
\* the send waits for capacity, and its failure is ignored
UpdateConfig(any_applied) ==
    /\ nUpdates < MaxUpdates
    /\ nUpdates' = nUpdates + 1
    /\ IF any_applied /\ loopPc # "returned"
       THEN /\ Len(configQ) < ConfigCap
            /\ configQ' = Append(configQ, nUpdates + 1)
       ELSE UNCHANGED configQ
    /\ UNCHANGED <<settledVars, executed, table, loopPc, config_tx, capacity, applied, refused, statusVars>>

----------------------------------------------------------------------------
(* The status snapshot *)

\* update_status(new_status): *guard = new_status
StatusAfterUpdate(old, new) == new

\* start_dink_listener, after expose_service has made the handler callable:
\* update_status(InstanceStatus { status: "running", .. })
MarkRunning ==
    /\ startPc = "exposed"
    /\ status' = StatusAfterUpdate(status, "running")
    /\ startPc' = "running"
    /\ UNCHANGED <<liveVars, sideVars, agent_sender, messages_handled, tool_calls_total, shutPc, queue,
                   rxDropped, callVars, slot, relay, lpc, msg_counter, cur, pending, bus,
                   busOpen, histVars, session, waited, relayQ, produced, emitted, preq,
                   supplied, gsLast>>

\* some Shutdown RPC has returned: it returns in the step that stores None
ShutdownReturned == ~agent_sender

\* a GetStatus RPC: status.read().await, status.status.clone()
GetStatus ==
    /\ gsLast' = [status |-> status, after_shutdown |-> ShutdownReturned]
    /\ UNCHANGED <<liveVars, sideVars, edgeVars, queue, rxDropped, callVars, slot, relay, lpc, msg_counter,
                   cur, pending, bus, busOpen, histVars, session, waited, relayQ,
                   produced, emitted, preq, supplied, startPc>>

----------------------------------------------------------------------------
(* The status lock: get_status and update_status running with calls *)

\* nobody holds the status lock
NoGuard == [held |-> "none", since |-> 0, ops |-> 0]

\* InstanceStatus::default(): the count fields of the stored snapshot
DefaultCounts == [messages_handled |-> 0, tool_calls_total |-> 0]

NoStatusResponse ==
    [returned |-> FALSE, status |-> "", messages_processed |-> 0, tool_calls_made |-> 0]

\* the InstanceStatus values update_status is called with
NewStatuses ==
    {[status |-> "running", messages_handled |-> 0, tool_calls_total |-> 0],
     [status |-> "running", messages_handled |-> 7, tool_calls_total |-> 3],
     [status |-> "degraded", messages_handled |-> 7, tool_calls_total |-> 0]}

\* the GetStatusResponse: status from the snapshot, counts from the counters
GetStatusResponse(st, msgs, tools) ==
    [returned |-> TRUE, status |-> st, messages_processed |-> msgs, tool_calls_made |-> tools]

\* get_status: self.status.read().await is granted
GsAcquire ==
    /\ statusGuard.held = "none"
    /\ statusGuard.ops < MaxStatusOps
    /\ statusGuard' = [held |-> "read", since |-> messages_handled,
                       ops |-> statusGuard.ops + 1]
    /\ UNCHANGED <<settledVars, toolRunVars, snapshot, gsResp>>

\* get_status: the counters are loaded, the response is built and returned,
\* and the read guard is dropped
GsReturn ==
    /\ statusGuard.held = "read"
    /\ gsResp' = GetStatusResponse(status, messages_handled, tool_calls_total)
    /\ statusGuard' = [statusGuard EXCEPT !.held = "none"]
    /\ UNCHANGED <<settledVars, toolRunVars, snapshot>>

\* update_status(new_status): self.status.write().await is granted
UsAcquire(new_status) ==
    /\ statusGuard.held = "none"
    /\ statusGuard.ops < MaxStatusOps
    /\ statusGuard' = [held |-> "write", since |-> messages_handled,
                       ops |-> statusGuard.ops + 1, new |-> new_status]
    /\ UNCHANGED <<settledVars, toolRunVars, snapshot, gsResp>>

\* update_status: *guard = new_status, and the write guard is dropped
UsStore ==
    /\ statusGuard.held = "write"
    /\ status' = StatusAfterUpdate(status, statusGuard.new.status)
    /\ snapshot' = [messages_handled |-> statusGuard.new.messages_handled,
                    tool_calls_total |-> statusGuard.new.tool_calls_total]
    /\ statusGuard' = [held |-> "none", since |-> statusGuard.since, ops |-> statusGuard.ops]
    /\ UNCHANGED <<agent_sender, messages_handled, tool_calls_total, shutPc, queue, rxDropped,
                   callVars, slot, relay, lpc, msg_counter, cur, pending, bus, busOpen,
                   histVars, session, waited, relayQ, produced, emitted, preq, supplied,
                   startPc, gsLast, liveVars, wdVars, markVars, probeVars, toolVars,
                   toolRunVars, gsResp>>

----------------------------------------------------------------------------
(* DinkChannel::listen *)

\* faulty variant: the counter is not advanced after the first message
NextCounterStuck(n) == IF n = 0 THEN 1 ELSE n

\* msg_counter += 1
NextCounter(n) == n + 1

\* faulty variant: the message is put on the bus before its sender is stashed
ListenStepsForwardFirst == <<"recv", "forward", "insert">>

\* the order of the steps of one iteration of the listen loop
ListenSteps == <<"recv", "insert", "forward">>

\* the step that follows step s in the loop
ListenStepAfter(s) ==
    LET i == CHOOSE j \in 1 .. Len(ListenSteps) : ListenSteps[j] = s
    IN  IF i = Len(ListenSteps) THEN ListenSteps[1] ELSE ListenSteps[i + 1]

\* reply_target of the ChannelMessage built from an AgentRequest
ReplyTarget(req, id) ==
    IF req.reply_to = NoReplyTo THEN DefaultReplyTarget ELSE req.reply_to

\* the ChannelMessage listen builds (the fields that route the reply)
ChannelMessage(req, id) ==
    [id |-> id, reply_target |-> ReplyTarget(req, id)]

\* the end of a loop iteration drops what is left of agent_req (its delta sender)
EndIteration(next) ==
    IF next = "recv"
    THEN /\ cur' = NoRequest
         /\ relay' = DropRelays(relay, {cur.call})
    ELSE UNCHANGED <<cur, relay>>

\* self.rx.lock().await.take(): listen starts
ListenStart ==
    /\ lpc = "new"
    /\ lpc' = "recv"
    /\ UNCHANGED <<session, auxVars, edgeVars, queue, rxDropped, callVars, slot, relay, msg_counter, cur,
                   pending, bus, busOpen, histVars>>

\* rx.recv().await: the next request, or None once the sender is gone
ListenRecv ==
    /\ lpc = "recv"
    /\ IF Len(queue) > 0
       THEN /\ cur' = Head(queue)
            /\ queue' = Tail(queue)
            /\ msg_counter' = NextCounter(msg_counter)
            /\ regId' = [regId EXCEPT ![Head(queue).call] = DinkId(NextCounter(msg_counter))]
            /\ lpc' = ListenStepAfter("recv")
            /\ UNCHANGED rxDropped
       ELSE /\ ~agent_sender
            /\ lpc' = "finished"
            /\ rxDropped' = TRUE
            /\ UNCHANGED <<cur, queue, msg_counter, regId>>
    /\ UNCHANGED <<session, auxVars, edgeVars, callVars, slot, relay, pending, bus, busOpen,
                   nSends, lastSend, inserted, fulfilled, overwrites, addressed,
                   firstAddressed>>

\* map.insert(msg_id.clone(), agent_req.response_tx): a replaced sender is dropped
ListenInsert ==
    /\ lpc = "insert"
    /\ LET id  == DinkId(msg_counter)
           old == pending[id]
       IN  /\ pending' = MapInsert(pending, id, cur.call)
           /\ inserted' = inserted \cup {id}
           /\ slot' = IF old # 0 THEN DropSenders(slot, {old}) ELSE slot
           /\ overwrites' = IF old # 0 THEN overwrites + 1 ELSE overwrites
    /\ lpc' = ListenStepAfter("insert")
    /\ EndIteration(ListenStepAfter("insert"))
    /\ UNCHANGED <<session, auxVars, edgeVars, queue, rxDropped, callVars, msg_counter, bus, busOpen,
                   nSends, lastSend, regId, fulfilled, addressed,
                   firstAddressed>>

\* tx.send(channel_msg).await: waits for capacity; a closed bus ends the loop,
\* and listen returns, dropping rx with the requests still queued
ListenForward ==
    /\ lpc = "forward"
    /\ IF busOpen
       THEN /\ Len(bus) < BusCap
            /\ bus' = Append(bus, ChannelMessage(cur, DinkId(msg_counter)))
            /\ lpc' = ListenStepAfter("forward")
            /\ EndIteration(ListenStepAfter("forward"))
            /\ UNCHANGED <<queue, rxDropped, slot>>
       ELSE /\ lpc' = "finished"
            /\ rxDropped' = TRUE
            /\ queue' = <<>>
            /\ cur' = NoRequest
            /\ slot' = DropSenders(slot, CallsOf(queue) \cup
                          (IF pending[DinkId(msg_counter)] = cur.call THEN {} ELSE {cur.call}))
            /\ relay' = DropRelays(relay, CallsOf(queue) \cup {cur.call})
            /\ UNCHANGED bus
    /\ UNCHANGED <<session, auxVars, edgeVars, callVars, msg_counter, pending, busOpen, histVars>>

----------------------------------------------------------------------------
(* DinkChannel::send *)

\* faulty variant: the sender is looked up and its entry left in the map
SendLookupKeepsEntry(map, id) == [sender |-> map[id], map |-> map]

\* map.remove(msg_id): the sender found, and the map afterwards
SendLookup(map, id) == [sender |-> map[id], map |-> MapRemove(map, id)]

\* faulty variant: the response does not carry the content of the message
SendResponseNoContent(content) == [response |-> "", tool_calls |-> 0, iterations |-> 0]

\* the AgentResponse send builds from the message content
SendResponse(content) == [response |-> content, tool_calls |-> 0, iterations |-> 0]

\* faulty variant: a missing entry is reported to the caller of send
SendReturnErrIfMissing(found) == IF found THEN "Ok" ELSE "Err"

\* what send returns to its caller
SendReturn(found) == "Ok"

\* the call a send fulfills: the owner of the sender it found
SendTarget(look) == look.sender

\* faulty variant: the guard on the pending map lives to the end of the
\* iteration, across tx.send(channel_msg).await
MapLockedAtForward == {"forward"}

\* the positions of the listen loop, between its steps, at which it holds the
\* lock on the pending map: the guard is dropped at the end of the block
\* around map.insert
MapLockedAt == {}

\* send: pending.lock().await, map.remove(msg_id) and the release of the lock,
\* then the oneshot send, which does not wait
ChannelSend(content, recipient) ==
    LET look  == SendLookup(pending, recipient)
        owner == SendTarget(look)
        hits  == {c \in Calls : regId[c] = recipient /\ recipient \in inserted}
    IN  /\ lpc \notin MapLockedAt
        /\ pending' = look.map
        /\ slot' = IF owner # 0
                   THEN [slot EXCEPT ![owner] = SlotSend(@, SendResponse(content))]
                   ELSE slot
        /\ fulfilled' = IF owner # 0 THEN [fulfilled EXCEPT ![owner] = @ + 1] ELSE fulfilled
        /\ nSends' = nSends + 1
        /\ lastSend' = [recipient |-> recipient, ret |-> SendReturn(look.sender # 0)]
        /\ addressed' = [c \in Calls |-> IF c \in hits THEN addressed[c] + 1 ELSE addressed[c]]
        /\ firstAddressed' = [c \in Calls |->
               IF c \in hits /\ addressed[c] = 0
               THEN [content |-> content, waiting |-> slot[c].rx]
               ELSE firstAddressed[c]]

\* the dispatch loop stops: the bus receiver is dropped
BusClose ==
    /\ busOpen
    /\ busOpen' = FALSE
    /\ bus' = <<>>
    /\ UNCHANGED <<session, auxVars, edgeVars, queue, rxDropped, callVars, slot, relay, lpc, msg_counter,
                   cur, pending, histVars>>

\* the agent's answer to the message with a given id
AnswerTo(id) == "re: " \o id

\* the dispatch loop takes the next ChannelMessage off the bus and answers it:
\* send(content, recipient = reply_target)
DispatchReply ==
    /\ busOpen
    /\ Len(bus) > 0
    /\ bus' = Tail(bus)
    /\ ChannelSend(AnswerTo(Head(bus).id), Head(bus).reply_target)
    /\ UNCHANGED <<session, auxVars, edgeVars, queue, rxDropped, callVars, relay, lpc, msg_counter, cur,
                   busOpen, regId, inserted, overwrites>>

\* the content of the n-th send of a run when it is not the dispatch loop's
DirectContent(n) == "direct " \o ToString(n)

\* any other caller of the public send, naming any recipient
DirectSend(recipient) ==
    /\ nSends < MaxSends
    /\ ChannelSend(DirectContent(nSends + 1), recipient)
    /\ UNCHANGED <<session, auxVars, edgeVars, queue, rxDropped, callVars, relay, lpc, msg_counter, cur,
                   bus, busOpen, regId, inserted, overwrites>>

----------------------------------------------------------------------------
(* The system *)

NoAddressed == [content |-> "", waiting |-> FALSE]

Constructed ==
    /\ agent_sender = TRUE
    /\ status = "initializing"
    /\ messages_handled = 0
    /\ tool_calls_total = 0
    /\ shutPc = "idle"
    /\ queue = <<>>
    /\ rxDropped = FALSE
    /\ pc = [c \in Calls |-> "idle"]
    /\ kind = [c \in Calls |-> "unary"]
    /\ reply_to = [c \in Calls |-> NoReplyTo]
    /\ slot = [c \in Calls |-> NoSlot]
    /\ relay = [c \in Calls |-> "none"]
    /\ result = [c \in Calls |-> NoResult]
    /\ lpc = "new"
    /\ msg_counter = 0
    /\ cur = NoRequest
    /\ pending = EmptyMap
    /\ bus = <<>>
    /\ busOpen = TRUE
    /\ nSends = 0
    /\ lastSend = NoSend
    /\ regId = [c \in Calls |-> NoId]
    /\ inserted = {}
    /\ fulfilled = [c \in Calls |-> 0]
    /\ overwrites = 0
    /\ addressed = [c \in Calls |-> 0]
    /\ firstAddressed = [c \in Calls |-> NoAddressed]
    /\ session = [c \in Calls |-> NoSession]
    /\ waited = [c \in Calls |-> 0]
    /\ relayQ = [c \in Calls |-> <<>>]
    /\ produced = [c \in Calls |-> <<>>]
    /\ emitted = [c \in Calls |-> <<>>]
    /\ preq = NoWork
    /\ supplied = [c \in Calls |-> NoReply]
    /\ startPc = "exposed"
    /\ gsLast = NoStatusRead
    /\ alive = <<NewAlive>>
    /\ clones = <<1>>
    /\ lastMark = "new"
    /\ nMarks = 0
    /\ seen = <<NotSeen>>
    /\ wpc = "none"
    /\ wdExit = FALSE
    /\ woken = "none"
    /\ slept = 0
    /\ elapsed = 0
    /\ recovered = FALSE
    /\ notifyDue = 0
    /\ deadFor = 0
    /\ everAlive = FALSE
    /\ everDead = FALSE
    /\ hsLiveness = HealthNotStarted
    /\ health = NoAnswer
    /\ discovered = NoDiscovery
    /\ made = NoTool
    /\ executed = NotExecuted
    /\ table = {}
    /\ loopPc = "select"
    /\ configQ = <<>>
    /\ config_tx = TRUE
    /\ nUpdates = 0
    /\ applied = 0
    /\ refused = [c \in Calls |-> 0]
    /\ statusGuard = NoGuard
    /\ snapshot = DefaultCounts
    /\ gsResp = NoStatusResponse

\* the state after construction, the request queue scaled down to QueueCap
Init == Constructed /\ capacity = QueueCap

\* the same with room for LoopQueueCap requests in the queue
InitLoop == Constructed /\ capacity = LoopQueueCap

\* the whole system: every RPC, the listener, the dispatch loop, stray sends
Next ==
    \/ \E c \in Calls, k \in {"unary", "stream"}, rt \in ReplyTos : CallStart(c, k, rt)
    \/ \E c \in Calls : CallAcquire(c)
    \/ \E c \in Calls : CallEnqueue(c)
    \/ \E c \in Calls : CallRelayClosed(c)
    \/ \E c \in Calls : CallReceive(c)
    \/ \E c \in Calls : CallTimeout(c)
    \/ \E c \in Calls : CallSettle(c)
    \/ ShutdownCall
    \/ ShutdownStatus
    \/ ShutdownSever
    \/ ListenStart
    \/ ListenRecv
    \/ ListenInsert
    \/ ListenForward
    \/ BusClose
    \/ DispatchReply
    \/ \E r \in Recipients : DirectSend(r)

Spec == Init /\ [][Next]_vars

\* the correlator: send_message calls, the listener, the dispatch loop and any
\* other caller of DinkChannel::send (no Shutdown RPC, the bus stays open)
NextChannel ==
    \/ \E c \in Calls, rt \in ReplyTos : CallStart(c, "unary", rt)
    \/ \E c \in Calls : CallAcquire(c)
    \/ \E c \in Calls : CallEnqueue(c)
    \/ \E c \in Calls : CallReceive(c)
    \/ \E c \in Calls : CallTimeout(c)
    \/ ListenStart
    \/ ListenRecv
    \/ ListenInsert
    \/ ListenForward
    \/ DispatchReply
    \/ \E r \in Recipients : DirectSend(r)

SpecChannel == Init /\ [][NextChannel]_vars

\* the edge service with its life cycle: both kinds of call, the Shutdown RPC,
\* the listener, the dispatch loop and its end (only the dispatch loop sends)
NextEdge ==
    \/ \E c \in Calls, k \in {"unary", "stream"}, rt \in ReplyTos : CallStart(c, k, rt)
    \/ \E c \in Calls : CallAcquire(c)
    \/ \E c \in Calls : CallEnqueue(c)
    \/ \E c \in Calls : CallRelayClosed(c)
    \/ \E c \in Calls : CallReceive(c)
    \/ \E c \in Calls : CallTimeout(c)
    \/ \E c \in Calls : CallSettle(c)
    \/ ShutdownCall
    \/ ShutdownStatus
    \/ ShutdownSever
    \/ ListenStart
    \/ ListenRecv
    \/ ListenInsert
    \/ ListenForward
    \/ BusClose
    \/ DispatchReply

SpecEdge == Init /\ [][NextEdge]_vars

\* send_message calls on the clock with the agent loop, and the Shutdown RPC
NextUnary ==
    \/ \E c \in Calls, s \in Sessions : CallBegin(c, "unary", NoReplyTo, s)
    \/ \E c \in Calls : CallAcquire(c)
    \/ \E c \in Calls : CallEnqueue(c)
    \/ \E c \in Calls : CallReceive(c)
    \/ \E c \in Calls : CallTimeoutAt(c)
    \/ Tick
    \/ ProcRecv
    \/ \E r \in Replies(preq.call) : ProcResolve(r)
    \/ ProcExit
    \/ ShutdownCall
    \/ ShutdownStatus
    \/ ShutdownSever

SpecUnary == Init /\ [][NextUnary]_vars

\* the runtime keeps polling every call and its timers fire; nothing obliges
\* the agent loop to take or to resolve a request
CallsProgress ==
    /\ WF_vars(Tick)
    /\ \A c \in Calls :
        /\ WF_vars(CallAcquire(c))
        /\ WF_vars(CallEnqueue(c))
        /\ WF_vars(CallReceive(c))
        /\ WF_vars(CallTimeoutAt(c))

SpecUnaryFair == SpecUnary /\ CallsProgress

\* stream_message calls on the clock with the agent loop
NextStream ==
    \/ \E c \in StreamCalls : CallStart(c, "stream", NoReplyTo)
    \/ \E c \in StreamCalls : CallAcquire(c)
    \/ \E c \in StreamCalls : CallEnqueue(c)
    \/ \E c \in StreamCalls, ok \in BOOLEAN : CallRelayEmit(c, ok)
    \/ \E c \in StreamCalls : CallRelayClosed(c)
    \/ \E c \in StreamCalls : CallReceive(c)
    \/ \E c \in StreamCalls : CallTimeoutAt(c)
    \/ \E c \in StreamCalls : CallSettle(c)
    \/ Tick
    \/ ProcRecv
    \/ ProcChunk
    \/ ProcCloseRelay
    \/ \E r \in Replies(preq.call) : ProcResolve(r)
    \/ ProcExit

SpecStream == Init /\ [][NextStream]_vars

\* a DinkLiveness, its clones and their callers
NextLiveness ==
    \/ \E h \in 1 .. Len(clones) : LivenessClone(h)
    \/ \E h \in 1 .. Len(clones) : mark_dead(h)
    \/ \E h \in 1 .. Len(clones) : mark_alive(h)
    \/ \E h \in 1 .. Len(clones) : ReadAlive(h)

SpecLiveness == Init /\ [][NextLiveness]_vars

\* the watchdog task, the callers of mark_dead and mark_alive, and the clock
NextWatchdog ==
    \/ \E exit \in BOOLEAN : WdSpawn(exit)
    \/ WdWaitCheck
    \/ WdNotified
    \/ WdWake
    \/ WdRecheck
    \/ WdSleepOver
    \/ WdStep3
    \/ WdTick
    \/ MarkDeadStore(WdLiveness)
    \/ MarkDeadNotify
    \/ mark_alive(WdLiveness)

SpecWatchdog == Init /\ [][NextWatchdog]_vars

\* the steps of the watchdog task
WdStep ==
    WdWaitCheck \/ WdNotified \/ WdWake \/ WdRecheck \/ WdSleepOver \/ WdStep3

\* the runtime keeps running a task that can run, a started mark_dead call
\* reaches its notify_waiters, and time does not stop
WatchdogProgress ==
    /\ WF_vars(WdStep)
    /\ WF_vars(MarkDeadNotify)
    /\ WF_vars(WdTick)

SpecWatchdogFair == SpecWatchdog /\ WatchdogProgress

\* the health server next to the Dispatcher: the liveness flag and its clones,
\* health requests, send_message calls served by the agent loop, the Shutdown
\* RPC and the status update of start_dink_listener
NextHealth ==
    \/ \E l \in {NoLiveness} \cup (1 .. Len(clones)) : StartHealthServer(l)
    \/ HealthProbe
    \/ \E h \in 1 .. Len(clones) : LivenessClone(h)
    \/ \E h \in 1 .. Len(clones) : mark_dead(h)
    \/ \E h \in 1 .. Len(clones) : mark_alive(h)
    \/ \E c \in StreamCalls : CallStart(c, "unary", NoReplyTo)
    \/ \E c \in StreamCalls : CallAcquire(c)
    \/ \E c \in StreamCalls : CallEnqueue(c)
    \/ \E c \in StreamCalls : CallReceive(c)
    \/ ProcRecv
    \/ \E r \in Replies(preq.call) : ProcResolve(r)
    \/ ShutdownCall
    \/ ShutdownStatus
    \/ ShutdownSever
    \/ MarkRunning

SpecHealth == Init /\ [][NextHealth]_vars

\* one tool is constructed, for any edge, service name and method name
NextNaming ==
    /\ made = NoTool
    /\ \E e \in EdgeIds, sn \in ServiceInputs, mn \in MethodInputs :
           DinkServiceToolNew(e, sn, mn)

SpecNaming == Init /\ [][NextNaming]_vars

\* one discovery, for any configuration and any answer of the center
NextDiscover ==
    /\ discovered = NoDiscovery
    /\ \E services \in ConfigServices, found \in Found : Discover(services, found)

SpecDiscover == Init /\ [][NextDiscover]_vars

\* one execute call of a tool, for any arguments, with or without a center
\* client, and for any outcome of the peer call
NextExecute ==
    /\ executed = NotExecuted
    /\ \E args \in ArgsInputs, center_client \in BOOLEAN, peer \in PeerOutcomes :
           Execute(args, center_client, peer)

SpecExecute == Init /\ [][NextExecute]_vars

\* tools built for pairs of the known-methods table, all on one edge
NextTable ==
    /\ Cardinality(table) < MaxTools
    /\ \E pair \in KnownPairs : TableNew("edge-1", pair)

SpecTable == Init /\ [][NextTable]_vars

\* the select loop of start_dink_listener with send_message calls, UpdateConfig
\* and Shutdown RPCs
NextLoop ==
    \/ \E c \in Calls : CallStart(c, "unary", NoReplyTo)
    \/ \E c \in Calls : CallAcquire(c)
    \/ \E c \in Calls : CallEnqueue(c)
    \/ \E c \in Calls : CallReceive(c)
    \/ \E c \in Calls : CallTimeout(c)
    \/ ProcRecv
    \/ \E r \in Replies(preq.call) : ProcResolve(r)
    \/ LoopRecvNone
    \/ LoopConfig
    \/ \E any_applied \in BOOLEAN : UpdateConfig(any_applied)
    \/ ShutdownCall
    \/ ShutdownStatus
    \/ ShutdownSever

SpecLoop == InitLoop /\ [][NextLoop]_vars

\* the runtime polls every task that can run: the calls, the Shutdown RPC and
\* the agent loop all make their steps
LoopProgress ==
    /\ WF_vars(ProcRecv)
    /\ WF_vars(LoopRecvNone)
    /\ WF_vars(LoopConfig)
    /\ WF_vars(\E r \in Replies(preq.call) : ProcResolve(r))
    /\ WF_vars(ShutdownStatus)
    /\ WF_vars(ShutdownSever)
    /\ \A c \in Calls :
        /\ WF_vars(CallAcquire(c))
        /\ WF_vars(CallEnqueue(c))
        /\ WF_vars(CallReceive(c))

SpecLoopFair == SpecLoop /\ LoopProgress

\* send_message calls with the agent loop, while get_status and update_status
\* calls take and drop the status lock
NextCounters ==
    \/ \E c \in Calls : CallStart(c, "unary", NoReplyTo)
    \/ \E c \in Calls : CallAcquire(c)
    \/ \E c \in Calls : CallEnqueue(c)
    \/ \E c \in Calls : CallReceive(c)
    \/ ProcRecv
    \/ \E r \in Replies(preq.call) : ProcResolve(r)
    \/ GsAcquire
    \/ GsReturn
    \/ \E new_status \in NewStatuses : UsAcquire(new_status)
    \/ UsStore

SpecCounters == Init /\ [][NextCounters]_vars

\* the correlator on the clock: send_message calls with their 30 s ceiling, the
\* listener, the dispatch loop and any other caller of DinkChannel::send
\* (requests carry no "reply_to", so only a send by id resolves a call)
NextTimeout ==
    \/ \E c \in Calls : CallStart(c, "unary", NoReplyTo)
    \/ \E c \in Calls : CallAcquire(c)
    \/ \E c \in Calls : CallEnqueue(c)
    \/ \E c \in Calls : CallReceive(c)
    \/ \E c \in Calls : CallTimeoutAt(c)
    \/ Tick
    \/ ListenStart
    \/ ListenRecv
    \/ ListenInsert
    \/ ListenForward
    \/ DispatchReply
    \/ \E r \in Recipients : DirectSend(r)

SpecTimeout == Init /\ [][NextTimeout]_vars

\* the status snapshot: send_message calls, the Shutdown RPC, the start-up of
\* start_dink_listener and GetStatus RPCs
NextStatus ==
    \/ \E c \in Calls : CallStart(c, "unary", NoReplyTo)
    \/ \E c \in Calls : CallAcquire(c)
    \/ \E c \in Calls : CallEnqueue(c)
    \/ \E c \in Calls : CallTimeout(c)
    \/ ShutdownCall
    \/ ShutdownStatus
    \/ ShutdownSever
    \/ MarkRunning
    \/ GetStatus

SpecStatus == Init /\ [][NextStatus]_vars

----------------------------------------------------------------------------
(* Claims *)

\* a DinkChannel::send call happens in this step
SendStep == nSends' = nSends + 1

\* the dispatch loop answers the head of the bus in this step
DispatchStep == busOpen /\ Len(bus) > 0 /\ bus' = Tail(bus) /\ SendStep

\* C1: each request's completion slot is fulfilled at most once; after a send
\* addressed to a registered id the entry is gone, so a later send for that id
\* finds nothing to fulfill.
C1_AtMostOneReply ==
    \A c \in Calls :
        /\ fulfilled[c] <= 1
        /\ addressed[c] >= 1 => pending[regId[c]] = 0

\* two sends were addressed to the id of one registered request, one fulfilled it
C1_Witness == \E c \in Calls : addressed[c] >= 2 /\ fulfilled[c] = 1

\* C2: a request registered and then addressed by exactly one send(content, id)
\* while its caller still waits gets exactly that content: it is what the
\* caller's receiver holds, and what a send_message call returns (stream_message
\* returns Ok(()) and passes no response on).
C2_CallerGetsThatContent ==
    \A c \in Calls :
        (addressed[c] = 1 /\ firstAddressed[c].waiting) =>
            /\ slot[c].st = "full"
            /\ slot[c].val = firstAddressed[c].content
            /\ pc[c] = "done" =>
                 result[c] = IF kind[c] = "stream" THEN OkUnit
                             ELSE [tag |-> "Ok", text |-> firstAddressed[c].content,
                                   tool_calls |-> 0]

\* two calls were each resolved once, with different contents, and returned them
C2_Witness ==
    \E c, d \in Calls :
        /\ c # d
        /\ addressed[c] = 1 /\ addressed[d] = 1
        /\ pc[c] = "done" /\ pc[d] = "done"
        /\ result[c].tag = "Ok" /\ result[d].tag = "Ok"
        /\ result[c].text # result[d].text

\* C3: when the dispatch loop answers a forwarded message whose request is still
\* pending (send with recipient = the message's reply_target), the send resolves
\* the completion slot of that same request.
C3_ReplyReachesItsRequest ==
    [][DispatchStep =>
        LET m == Head(bus) IN
        pending[m.id] # 0 =>
            /\ pending'[m.id] = 0
            /\ fulfilled'[pending[m.id]] = fulfilled[pending[m.id]] + 1]_vars

\* C4: a send for an id with no entry in the pending map returns Ok and changes
\* neither the map nor any completion slot, fulfillment or call result.
C4_SendUnknownIsNoOp ==
    [][(SendStep /\ pending[lastSend'.recipient] = 0) =>
        /\ lastSend'.ret = "Ok"
        /\ pending' = pending
        /\ slot' = slot
        /\ fulfilled' = fulfilled
        /\ result' = result
        /\ pc' = pc]_vars

\* a second send named an id already resolved, and the last send named a
\* recipient that was never registered; the last one returned Ok
C4_Witness ==
    /\ \E c \in Calls : addressed[c] >= 2 /\ fulfilled[c] = 1
    /\ lastSend = [recipient |-> DefaultReplyTarget, ret |-> "Ok"]

\* C5: every message visible on the bus carries an id that was inserted into
\* the pending map before, and as long as no send has been addressed to that
\* id its entry is there for the first send to find.
C5_RegisteredBeforeVisible ==
    \A i \in 1 .. Len(bus) :
        LET id == bus[i].id IN
        /\ id \in inserted
        /\ (\A c \in Calls : regId[c] = id => addressed[c] = 0) => pending[id] # 0

\* a message is on the bus and its entry waits in the map
C5_Witness == Len(bus) > 0 /\ pending[bus[1].id] # 0

\* C6: the ids listen generates are pairwise distinct and an insert never
\* replaces a live entry; an entry leaves the map only in a send whose
\* recipient is its id, and once removed never comes back.
C6_PendingMapDiscipline ==
    [][/\ overwrites' = 0
       /\ \A c, d \in Calls : (c # d /\ regId'[c] # NoId) => regId'[c] # regId'[d]
       /\ \A id \in Recipients :
            (pending[id] # 0 /\ pending'[id] # pending[id]) =>
                (SendStep /\ lastSend'.recipient = id /\ pending'[id] = 0)
       /\ \A id \in Recipients :
            (id \in inserted /\ pending[id] = 0) => pending'[id] = 0]_vars

\* two entries were inserted; one was removed by a send, the other is live
C6_Witness ==
    \E a, b \in inserted : a # b /\ pending[a] = 0 /\ pending[b] # 0

\* C7: once a call has ended (resolved or timed out), no entry of the pending
\* map holds its completion slot.
C7_NoEntryOfEndedRequest ==
    \A c \in Calls : pc[c] = "done" => \A id \in Recipients : pending[id] # c

\* C8: once listen has ended, no caller is left blocked on a registered
\* completion slot that nobody has resolved or closed.
C8_ListenEndWakesCallers ==
    lpc = "finished" =>
        \A c \in Calls :
            ~(/\ pc[c] \in {"relay", "await"}
              /\ slot[c].st = "empty"
              /\ \E id \in Recipients : pending[id] = c)

\* C9: a send_message call that finds agent_sender = None ends in that step
\* with the not-started failure: no slot, nothing enqueued, counters unchanged.
C9_NotStartedFailsFast ==
    [][\A c \in Calls :
        (pc[c] = "read" /\ pc'[c] # "read" /\ ~agent_sender /\ kind[c] = "unary") =>
            /\ pc'[c] = "done"
            /\ result'[c] = Err(ErrNotStartedUnary)
            /\ slot'[c] = NoSlot
            /\ queue' = queue
            /\ messages_handled' = messages_handled
            /\ tool_calls_total' = tool_calls_total]_vars

\* a send_message call met the severed link and returned the failure
C9_Witness ==
    \E c \in Calls :
        /\ kind[c] = "unary" /\ pc[c] = "done"
        /\ result[c] = Err(ErrNotStartedUnary)
        /\ slot[c] = NoSlot

\* C10: when shutdown returns the link is severed; it stays severed in every
\* later step, and every call that reads the link afterwards ends at once with
\* its not-started failure and enqueues nothing.
C10_ShutdownSeversForGood ==
    [][/\ shutPc' = "done" => ~agent_sender'
       /\ ~agent_sender => ~agent_sender'
       /\ \A c \in Calls :
            (~agent_sender /\ pc[c] = "read" /\ pc'[c] # "read") =>
                /\ pc'[c] = "done"
                /\ result'[c] = NotStarted(kind[c])
                /\ queue' = queue]_vars

\* after a shutdown a stream_message and a send_message call both failed fast
C10_Witness ==
    /\ shutPc = "done"
    /\ \E c, d \in Calls :
        /\ kind[c] = "stream" /\ result[c] = Err(ErrNotStartedStream)
        /\ kind[d] = "unary" /\ result[d] = Err(ErrNotStartedUnary)

\* C11: every get_status call that starts after a shutdown has returned
\* reports the status "stopping".
C11_StatusStoppingAfterShutdown ==
    gsLast.after_shutdown => gsLast.status = "stopping"

\* C12: a send_message call leaves its wait without a reply only once the
\* 30-unit ceiling has elapsed, with the timeout failure and unchanged counters;
\* that step cancels nothing (queue, listener, pending map and bus stay as they
\* are). A send that names the id of a timed-out call afterwards returns Ok and
\* changes no counter, no slot and no call's result.
C12_UnaryTimeoutAbandonsOnlyTheWait ==
    [][/\ \A c \in Calls :
            (pc[c] = "await" /\ slot[c].st = "empty" /\ pc'[c] # "await") =>
                /\ waited[c] >= UnaryCeiling
                /\ pc'[c] = "done"
                /\ result'[c] = Err(ErrUnaryTimeout)
                /\ messages_handled' = messages_handled
                /\ tool_calls_total' = tool_calls_total
                /\ queue' = queue /\ cur' = cur /\ lpc' = lpc
                /\ pending' = pending /\ bus' = bus
       /\ \A c \in Calls :
            (/\ SendStep
             /\ lastSend'.recipient = regId[c]
             /\ pending[regId[c]] = c
             /\ result[c] = Err(ErrUnaryTimeout)) =>
                /\ lastSend'.ret = "Ok"
                /\ messages_handled' = messages_handled
                /\ tool_calls_total' = tool_calls_total
                /\ slot' = slot
                /\ result' = result
                /\ pc' = pc]_vars

\* a call timed out at its ceiling, a send then named its id and was discarded,
\* and another call got its own reply
C12_Witness ==
    \E c, d \in Calls :
        /\ c # d
        /\ result[c] = Err(ErrUnaryTimeout) /\ waited[c] >= UnaryCeiling
        /\ addressed[c] >= 1 /\ ~firstAddressed[c].waiting /\ fulfilled[c] = 1
        /\ result[d].tag = "Ok"

\* C13: every send_message call that found the work-queue link in place
\* returns in the end, whatever the agent loop does or fails to do.
C13_NoUnaryCallerWaitsForever ==
    \A c \in Calls : (pc[c] = "enqueue") ~> (pc[c] = "done")

\* a call returns in this step
Returns(c) == pc[c] # "done" /\ pc'[c] = "done"

\* C14: a send_message call that returns success adds exactly 1 to
\* messages_handled and the number of tool-call records of its reply to
\* tool_calls_total; a call that returns a failure changes neither counter, and
\* no other step changes them: messages_handled is the number of calls that
\* succeeded.
C14_UnaryCounters ==
    [][/\ \A c \in Calls :
            Returns(c) =>
                IF result'[c].tag = "Ok"
                THEN /\ supplied[c].tag = "Ok"
                     /\ messages_handled' = messages_handled + 1
                     /\ tool_calls_total' = tool_calls_total + supplied[c].tool_calls
                ELSE /\ messages_handled' = messages_handled
                     /\ tool_calls_total' = tool_calls_total
       /\ (messages_handled' # messages_handled \/ tool_calls_total' # tool_calls_total)
              => \E c \in Calls : Returns(c)
       /\ messages_handled' = Cardinality({c \in Calls : result'[c].tag = "Ok"})]_vars

\* one call succeeded with a reply that has tool-call records, another one
\* failed with the agent's error; the counters count the first only
C14_Witness ==
    \E c, d \in Calls :
        /\ result[c].tag = "Ok" /\ result[c].tool_calls = MaxToolCalls
        /\ result[d] = Err(ErrAgent(ErrReply.response))
        /\ messages_handled = 1
        /\ tool_calls_total = MaxToolCalls

\* C15: a send_message call whose request the agent loop resolved with a
\* successful reply while it waited returns a response with exactly the text
\* and the tool calls of that reply and the session id of its own request.
C15_UnarySuccess ==
    \A c \in Calls :
        /\ (pc[c] = "done" /\ slot[c].st = "full") => result[c].tag = "Ok"
        /\ (pc[c] = "done" /\ result[c].tag = "Ok") =>
              /\ supplied[c].tag = "Ok"
              /\ Returned(c) = [response |-> supplied[c].response,
                                session_id |-> session[c],
                                tool_calls |-> supplied[c].tool_calls,
                                duration_ms |-> 0]
              /\ Returned(c).response = ReplyText(c)
              /\ Returned(c).session_id \in Sessions

\* two calls with the same session id each got the reply to its own request
C15_Witness ==
    \E c, d \in Calls :
        /\ c # d /\ session[c] = session[d]
        /\ pc[c] = "done" /\ pc[d] = "done"
        /\ result[c].tag = "Ok" /\ result[d].tag = "Ok"
        /\ Returned(c).response # Returned(d).response

\* C16: within a stream_message call whose emit has not failed, the chunks
\* passed to emit followed by those still on the relay are exactly the chunks
\* the producer put on it, in its order; once the relay loop has ended, every
\* chunk produced has been emitted exactly once.
C16_StreamingOrder ==
    \A c \in Calls :
        (kind[c] = "stream" /\ result[c] # Err(ErrEmit)) =>
            /\ emitted[c] \o relayQ[c] = produced[c]
            /\ \A i \in 1 .. Len(produced[c]) : produced[c][i] = i
            /\ pc[c] \in {"await", "settle"} => emitted[c] = produced[c]
            /\ result[c] = OkUnit => emitted[c] = produced[c]

\* a call succeeded after relaying as many chunks as the producer may put
C16_Witness ==
    \E c \in Calls :
        /\ pc[c] = "done" /\ result[c] = OkUnit
        /\ Len(emitted[c]) = MaxChunks /\ MaxChunks >= 2

\* C17: stream_message waits for the terminal result only once the relay is
\* closed and drained, and succeeds only when, besides, the terminal result was
\* resolved with success; the end of the relay does not complete the call, and
\* a terminal result resolved while the relay is open leaves the call in its
\* relay loop, which goes on forwarding.
C17_StreamingCompletion ==
    [][\A c \in Calls :
        kind'[c] = "stream" =>
            /\ pc'[c] \in {"await", "settle"} =>
                  (relay'[c] = "closed" /\ relayQ'[c] = <<>>)
            /\ result'[c] = OkUnit =>
                  /\ relay'[c] = "closed" /\ relayQ'[c] = <<>>
                  /\ slot'[c].st = "full"
            /\ (pc[c] = "relay" /\ pc'[c] = "await") =>
                  /\ result'[c] = NoResult
                  /\ messages_handled' = messages_handled
            /\ (pc[c] = "relay" /\ slot[c].st = "empty" /\ slot'[c].st # "empty") =>
                  /\ pc'[c] = "relay"
                  /\ relayQ'[c] = relayQ[c] /\ emitted'[c] = emitted[c]
            /\ (pc[c] = "relay" /\ slot[c].st = "full" /\ relayQ[c] # <<>>
                   /\ pc'[c] = "relay" /\ emitted'[c] # emitted[c]) =>
                  emitted'[c] = Append(emitted[c], Head(relayQ[c]))]_vars

\* the terminal result is resolved while the relay is open and holds a chunk,
\* after the call has already emitted one
C17_Witness ==
    \E c \in Calls :
        /\ pc[c] = "relay" /\ relay[c] = "open" /\ slot[c].st = "full"
        /\ Len(emitted[c]) >= 1 /\ relayQ[c] # <<>>

\* C18: the timer of stream_message starts when the relay has ended; the call
\* leaves its wait unresolved only once 120 units have passed since then, with
\* the timeout failure and without counting the call.
C18_StreamingTimeout ==
    [][\A c \in Calls :
        kind'[c] = "stream" =>
            /\ pc[c] \in {"idle", "read", "enqueue", "relay"} => waited[c] = 0
            /\ (pc[c] = "await" /\ slot[c].st = "empty" /\ pc'[c] # "await") =>
                  /\ waited[c] >= StreamCeiling
                  /\ pc'[c] = "done"
                  /\ result'[c] = Err(ErrStreamTimeout)
                  /\ messages_handled' = messages_handled
                  /\ tool_calls_total' = tool_calls_total]_vars

\* a stream_message call relayed a chunk, then timed out at its ceiling
C18_Witness ==
    \E c \in Calls :
        /\ result[c] = Err(ErrStreamTimeout)
        /\ waited[c] = StreamCeiling
        /\ Len(emitted[c]) >= 1
        /\ messages_handled = 0

\* C19: a stream_message call adds exactly 1 to messages_handled, in the step
\* in which its terminal wait succeeds, whatever it relayed; no step adds to
\* tool_calls_total, and a call that fails counts nothing.
C19_StreamingCounter ==
    [][/\ \A c \in Calls :
            kind'[c] = "stream" =>
                /\ (result[c] = NoResult /\ result'[c] = OkUnit) =>
                       messages_handled' = messages_handled + 1
                /\ (result[c] = NoResult /\ result'[c].tag = "Err") =>
                       messages_handled' = messages_handled
                /\ emitted'[c] # emitted[c] => messages_handled' = messages_handled
       /\ tool_calls_total' = tool_calls_total
       /\ messages_handled' # messages_handled =>
              \E c \in Calls : result[c] = NoResult /\ result'[c] = OkUnit
       /\ messages_handled' = Cardinality({c \in Calls : result'[c] = OkUnit})]_vars

\* a call that relayed several chunks and whose terminal reply has tool-call
\* records returned success: it counts as one message and no tool call
C19_Witness ==
    \E c \in Calls :
        /\ pc[c] = "done" /\ result[c] = OkUnit
        /\ Len(emitted[c]) >= 2
        /\ supplied[c].tool_calls >= 1
        /\ messages_handled = 1 /\ tool_calls_total = 0

\* C20: a new DinkLiveness is alive; at any time is_alive() on any clone is
\* false if the last of the mark calls, on whichever clone, was mark_dead and
\* true otherwise (so repeating a call changes nothing), and what a caller read
\* since the last mark call is that value.
C20_LivenessFlag ==
    /\ lastMark = "new" => nMarks = 0
    /\ \A h \in 1 .. Len(clones) :
        /\ is_alive(h) = (lastMark # "mark_dead")
        /\ seen[h].at = nMarks => seen[h].val = (lastMark # "mark_dead")

\* three mark calls were made, the last one mark_alive: a clone read false
\* just before it, and the original reads true after it
C20_Witness ==
    /\ Len(clones) >= 2
    /\ nMarks >= 3 /\ lastMark = "mark_alive"
    /\ seen[2] = [val |-> FALSE, at |-> nMarks - 1]
    /\ seen[1] = [val |-> TRUE, at |-> nMarks]

\* C21: no wake-up is lost: in every interleaving of the steps of
\* wait_until_dead with those of mark_dead, a task parked on its Notified
\* future while no mark_dead call is between its store and its
\* notify_waiters is parked because the flag is true (a task that finds the
\* flag false returns, and a mark_dead of another task makes a waiter return).
C21_NoLostWakeup ==
    (wpc = "wait_parked" /\ woken = "waiting" /\ notifyDue = 0)
        => is_alive(WdLiveness)

\* C22: when the flag is false from spawn_watchdog on (it was false at the
\* spawn and mark_alive is not called), the task performs its terminal action
\* no earlier than the grace period after the spawn and no later than one step
\* of the clock after that: until then the clock has not passed that time.
C22_TriggerAfterGrace ==
    /\ []((wpc # "none" /\ ~everAlive /\ ~Triggered) => elapsed <= Grace + Quantum)
    /\ [][(~Triggered /\ Triggered' /\ ~everAlive)
            => (elapsed >= Grace /\ elapsed <= Grace + Quantum)]_vars

\* the flag was false all along, and the task has returned true after the
\* grace period
C22_Witness ==
    /\ wpc = "returned" /\ ~wdExit
    /\ ~everAlive /\ everDead
    /\ elapsed >= Grace /\ deadFor >= Grace

\* C23: while the flag stays true after a mark_alive (no mark call since, or
\* only further mark_alive calls), a task that has not triggered does not
\* trigger, however far the clock runs; in particular a mark_alive during the
\* grace sleep that is not followed by a mark_dead cancels the trigger.
C23_RecoveryCancels ==
    [][(~Triggered /\ lastMark = "mark_alive" /\ lastMark' = "mark_alive")
         => ~Triggered']_vars

\* the flag went false, the task slept its grace period, a mark_alive came
\* during the sleep: the task passed "recovered", is parked in wait_until_dead
\* again, and the clock has run to the horizon, well beyond the grace period
C23_Witness ==
    /\ recovered /\ everDead
    /\ lastMark = "mark_alive" /\ is_alive(WdLiveness)
    /\ wpc = "wait_parked"
    /\ elapsed = Horizon /\ elapsed > Grace + Quantum

\* C24: while mark_dead has never been called, the watchdog task stays inside
\* wait_until_dead: it has not started a grace sleep, has not performed its
\* terminal action and has not finished, however far the clock has run.
C24_QuietWhileNeverDead ==
    ~everDead => (~Triggered /\ wpc \in {"none", "wait_check", "wait_notified", "wait_parked"})

\* mark_dead was never called (mark_alive was), the task is parked in
\* wait_until_dead and the clock has run to the horizon
C24_Witness ==
    /\ ~everDead /\ lastMark = "mark_alive"
    /\ wpc = "wait_parked" /\ woken = "waiting"
    /\ elapsed = Horizon /\ elapsed > Grace

\* C25: whenever the watchdog task performs its terminal action, the flag has
\* been false without interruption for at least the grace period just before,
\* whatever the sequence of mark_dead / mark_alive calls.
C25_TriggerOnlyAfterDeadForGrace ==
    [][(~Triggered /\ Triggered') => deadFor >= Grace]_vars

\* C26: forced termination: if mark_dead is called while the watchdog task is
\* running, whatever step of its wait the task is at, and the flag stays false
\* for ever after, the task eventually performs its terminal action.
C26_DeadForeverTriggers ==
    <>[](wpc # "none" /\ everDead /\ ~is_alive(WdLiveness)) => <>Triggered

\* C27: the health probe answers 200 exactly when no liveness tracker is
\* configured or the flag is true at the time of the request (the last mark
\* call on any clone was not mark_dead), and 503 otherwise, whatever the
\* Dispatcher is doing (calls, counters, status updates, shutdown).
C27_HealthFollowsLiveness ==
    health # NoAnswer =>
        health.code = (IF ~health.tracker \/ health.flag THEN "OK"
                       ELSE "SERVICE_UNAVAILABLE")

\* a request answered 503 after the Dispatcher served a message and was shut
\* down: a tracker is configured and the last mark call was mark_dead
C27_Witness ==
    /\ health.code = "SERVICE_UNAVAILABLE" /\ health.tracker /\ ~health.flag
    /\ ~agent_sender /\ status = "stopping" /\ messages_handled >= 1

\* what the statement of C30 asks of one character at position n (from 1) of a
\* name: an uppercase letter is lowercased (every one of them if all is TRUE,
\* the ASCII ones only if not) and gets '_' in front unless it is the first
\* character; any other character is kept
C30_Piece(ch, n, all) ==
    LET ascii == ch \in DOMAIN AsciiLowercase
        upper == ascii \/ ch \in OtherUppercase
        lower == IF ascii THEN AsciiLowercase[ch]
                 ELSE IF all /\ ch = "É" THEN "é" ELSE ch
    IN  IF upper THEN (IF n > 1 THEN "_" ELSE "") \o lower ELSE ch

\* snake of the first n characters of a name, piece by piece
RECURSIVE C30_Snake(_, _, _)
C30_Snake(name, n, all) ==
    IF n = 0 THEN ""
    ELSE C30_Snake(name, n - 1, all) \o C30_Piece(SubSeq(name, n, n), n, all)

\* the service name with one trailing "Service" removed
C30_Stem(name) ==
    LET n == Len(name) - Len("Service")
    IN  IF n >= 0 /\ SubSeq(name, n + 1, Len(name)) = "Service"
        THEN SubSeq(name, 1, n)
        ELSE name

\* the identifier the statement of C30 gives to (service, method)
C30_Name(service, method, all) ==
    "dink_" \o C30_Snake(C30_Stem(service), Len(C30_Stem(service)), all)
            \o "_" \o C30_Snake(method, Len(method), all)

C29_OneToolPerPair ==
    discovered # NoDiscovery =>
        \A i, k \in 1 .. Len(discovered.tools) :
            i # k =>
              /\ <<discovered.tools[i].service_name, discovered.tools[i].method_name>>
                   # <<discovered.tools[k].service_name, discovered.tools[k].method_name>>
              /\ discovered.tools[i].tool_name # discovered.tools[k].tool_name

\* C31: execute never returns Err because the peer call failed: for every
\* failure of call_edge, a missing center client included, it returns Ok with
\* success = false, an empty output and the error text; success = true only
\* when the peer call succeeded, and then error is None
C31_PeerFailureIsOkResult ==
    executed.ran =>
        LET r == executed.returned IN
        /\ r.is_ok
        /\ ~executed.center_client => ~executed.edge.ok
        /\ ~executed.edge.ok =>
               /\ r.success = FALSE
               /\ ByteLen(r.output) = 0
               /\ r.error = <<executed.edge.text>>
        /\ r.success => executed.edge.ok /\ r.error = <<>>

\* an execute call without a center client has returned its failure result
C31_Witness ==
    /\ executed.ran
    /\ ~executed.center_client
    /\ executed.returned.is_ok
    /\ ~executed.returned.success
    /\ executed.returned.error = <<NoCenterClient>>

\* C32: a decoded reply of at most 51200 bytes is returned unchanged; a longer
\* one is cut to its longest prefix that ends on a character boundary and has
\* at most 51200 bytes, followed by the truncation marker, so the output never
\* exceeds 51200 bytes plus the length of the marker
C32_TruncationAtBoundary ==
    (executed.ran /\ executed.edge.ok) =>
        LET s   == executed.edge.decoded
            out == executed.returned.output
            cut == ByteLen(out) - ByteLen(TruncationMarker)
        IN  /\ ByteLen(s) <= 51200 => out = s
            /\ ByteLen(s) > 51200 =>
                   /\ cut \in 0 .. 51200
                   /\ is_char_boundary(s, cut)
                   /\ \A b \in (cut + 1) .. 51200 : ~is_char_boundary(s, b)
                   /\ out = push_str(Prefix(s, cut), TruncationMarker)
            /\ ByteLen(out) <= 51200 + ByteLen(TruncationMarker)

\* a reply longer than the limit, with the limit inside a character, has been
\* cut before that character
C32_Witness ==
    /\ executed.ran
    /\ executed.edge.ok
    /\ ByteLen(executed.edge.decoded) > 51200
    /\ ~is_char_boundary(executed.edge.decoded, 51200)
    /\ ByteLen(executed.returned.output) < 51200 + ByteLen(TruncationMarker)

\* C40: among the (service, method) pairs of the known-methods table the
\* derived tool name is injective: two different pairs never get the same name
C40_TableNamesInjective ==
    \A a \in table, b \in table :
        a.tool_name = b.tool_name =>
            a.service_name = b.service_name /\ a.method_name = b.method_name

\* the two GetStatus methods of the table have both been built, under two names
C40_Witness ==
    \E a \in table, b \in table :
        /\ a.service_name = "ZeroClawService" /\ b.service_name = "WorkspaceService"
        /\ a.method_name = "GetStatus" /\ b.method_name = "GetStatus"
        /\ a.tool_name = "dink_zero_claw_get_status"
        /\ b.tool_name = "dink_workspace_get_status"

\* C34: the watchdog reads the flag only at the end of the grace sleep: a
\* mark_alive during the sleep does not wake it, the sleep ends only after the
\* whole grace period and leads to the one check of step 3; finding the flag
\* true there it goes back to wait_until_dead, and every grace sleep it enters,
\* the first and the ones after a recovery, starts from zero with the flag seen false
C34_SampleAtEndOfSleep ==
    [][/\ (wpc = "sleep" /\ ~is_alive(WdLiveness) /\ is_alive(WdLiveness)') =>
              (wpc' = "sleep" /\ slept' = slept)
       /\ (wpc = "sleep" /\ wpc' # "sleep") => (slept >= Grace /\ wpc' = "step3")
       /\ (wpc = "step3" /\ wpc' # "step3") =>
              wpc' = (IF is_alive(WdLiveness) THEN "wait_check" ELSE TerminalAction(wdExit))
       /\ (wpc # "sleep" /\ wpc' = "sleep") =>
              (slept' = 0 /\ ~is_alive(WdLiveness) /\ wpc \in {"wait_check", "wait_recheck"})
       /\ (~Triggered /\ Triggered') => wpc = "step3"
      ]_vars

\* the watchdog has triggered after a recovery: it has slept two whole grace periods
C34_Witness ==
    /\ recovered
    /\ Triggered
    /\ slept = Grace
    /\ elapsed >= 2 * Grace

\* C33: after a Shutdown RPC has severed the work-queue link, dropping the only
\* request sender, start_dink_listener eventually leaves its loop and returns
C33_LoopEndsAfterShutdown ==
    (shutPc = "done" /\ ~agent_sender) ~> (loopPc = "returned")

\* C36: the agent loop takes a request only when it holds none, and the one it
\* takes is the oldest of the queue; it lets go of a request only after it has
\* resolved it, and it resolves a request once: the one it holds, never resolved before
C36_OneAtATimeInOrder ==
    [][/\ (Len(queue') < Len(queue)) =>
              /\ preq = NoWork
              /\ preq'.call = Head(queue).call
              /\ preq'.tx
              /\ queue' = Tail(queue)
       /\ (preq # NoWork /\ preq' # preq) =>
              /\ preq' = NoWork
              /\ supplied'[preq.call] # NoReply
       /\ \A c \in Calls :
              (supplied'[c] # supplied[c] \/ (slot'[c] # slot[c] /\ pc'[c] = pc[c])) =>
                  /\ preq.call = c /\ preq.tx
                  /\ supplied[c] = NoReply
                  /\ supplied'[c] # NoReply
      ]_vars

\* the loop holds the request of call 2, which was enqueued first, and has
\* resolved nothing yet; the request of call 1 waits in the queue behind it
C36_Witness ==
    /\ preq # NoWork
    /\ preq.call = 2
    /\ Len(queue) = 1
    /\ queue[1].call = 1
    /\ \A c \in Calls : supplied[c] = NoReply

\* C35: the lock on the pending map is held only around one insert or remove
\* and never while waiting on another queue: while listen is blocked sending
\* to a full message bus, a DinkChannel::send, by the dispatch loop or by any
\* other caller, can take the lock and complete, so the two cannot deadlock
C35_SendNotBlockedByListen ==
    (lpc = "forward" /\ busOpen /\ Len(bus) >= BusCap) =>
        /\ ENABLED DispatchReply
        /\ nSends < MaxSends => \A r \in Recipients : ENABLED DirectSend(r)

\* listen is blocked on the full bus with the sender of its request stashed,
\* and a send has since taken that sender out of the map and fulfilled the call
C35_Witness ==
    /\ lpc = "forward"
    /\ busOpen
    /\ Len(bus) >= BusCap
    /\ DinkId(msg_counter) \in inserted
    /\ pending[DinkId(msg_counter)] = 0
    /\ fulfilled[cur.call] = 1

\* C38: a send_message or stream_message call keeps shared access to the
\* work-queue link from the moment it has read the link until it returns: the
\* link is present as long as such a call is under way, and the step of
\* shutdown that severs the link is taken only when every call that had
\* obtained the link has returned
C38_SeverWaitsForCalls ==
    /\ [](\A c \in Calls :
              pc[c] \in {"enqueue", "relay", "await", "settle"} => agent_sender)
    /\ [][(agent_sender /\ ~agent_sender') =>
              \A c \in Calls : pc[c] \in {"idle", "read", "done"} /\ pc'[c] = pc[c]]_vars

\* a Shutdown RPC waits for the write guard while a call that has obtained the
\* link waits for its reply
C38_Witness ==
    /\ shutPc = "sever"
    /\ agent_sender
    /\ \E c \in Calls : pc[c] = "await"

\* C39: when the caller's emit sink fails on a chunk, stream_message returns
\* that failure in the same step: it emits no later chunk, has dropped the
\* receiver of the terminal result without awaiting it, and adds nothing to
\* the call counter; no later chunk enters the relay, and a later write of the
\* producer is refused at once rather than made to wait
C39_EmitFailureEndsCall ==
    /\ [](\A c \in Calls :
              result[c] = Err(ErrEmit) =>
                  /\ pc[c] = "done"
                  /\ ~slot[c].rx
                  /\ relayQ[c] = <<>>
                  /\ (preq.delta /\ preq.call = c /\
                      Len(produced[c]) + refused[c] < MaxChunks) => ENABLED ProcChunk)
    /\ [][\A c \in Calls :
              /\ (result[c] # Err(ErrEmit) /\ result'[c] = Err(ErrEmit)) =>
                     /\ pc[c] = "relay" /\ pc'[c] = "done"
                     /\ emitted'[c] = emitted[c]
                     /\ messages_handled' = messages_handled
              /\ result[c] = Err(ErrEmit) =>
                     /\ result'[c] = result[c]
                     /\ emitted'[c] = emitted[c]
                     /\ produced'[c] = produced[c]
                     /\ refused'[c] >= refused[c]
                     /\ messages_handled' # messages_handled =>
                            \E d \in Calls \ {c} : result[d] = NoResult /\ result'[d] = OkUnit
         ]_vars

\* the emit sink failed on a chunk, the call returned the failure, and a later
\* write of the producer was refused
C39_Witness ==
    \E c \in Calls :
        /\ result[c] = Err(ErrEmit)
        /\ pc[c] = "done"
        /\ refused[c] >= 1
        /\ messages_handled = 0

\* C37: status and counters are guarded independently: a call whose reply has
\* arrived can record its success whoever holds the status lock, and the
\* increment leaves the lock alone; the counts of a GetStatusResponse are the
\* counters at the time it is built, and a step that replaces the stored
\* snapshot changes neither counter
C37_CountersFreeOfStatusLock ==
    /\ [](\A c \in Calls :
              (pc[c] = "await" /\ slot[c].st = "full") => ENABLED CallReceive(c))
    /\ [][/\ gsResp' # gsResp =>
                 /\ gsResp'.messages_processed = messages_handled
                 /\ gsResp'.tool_calls_made = tool_calls_total
          /\ (status' # status \/ snapshot' # snapshot) =>
                 /\ messages_handled' = messages_handled
                 /\ tool_calls_total' = tool_calls_total
          /\ messages_handled' # messages_handled => statusGuard' = statusGuard
         ]_vars

\* update_status has stored a snapshot whose counts differ from the counters;
\* a get_status call that took the lock before a call recorded its success has
\* reported the counters, that success included
C37_Witness ==
    /\ gsResp.returned
    /\ snapshot.messages_handled = 7
    /\ gsResp.messages_processed = 1
    /\ gsResp.messages_processed > statusGuard.since
    /\ statusGuard.held = "none"
    /\ gsResp.status = status

====
